---------------------------- MODULE Spec2Model ----------------------------
(***************************************************************************)
(* A model of the bit-granular serialization core of suroi-backend:       *)
(* utils/bitstream.rs (BitStream and the Stream trait), the string codec   *)
(* of utils/string_utils.rs, the float codec of utils/decimal.rs and the   *)
(* byte alignment of utils/suroi_bitstream.rs.                             *)
(*                                                                         *)
(* Machine integers are modelled by their bits: a u8/u32/u64/u128 value is *)
(* the set of the positions of its 1 bits (bit 0 least significant), so    *)
(* that & | ! << >> and the `as` truncations are computed as the hardware  *)
(* computes them and no value is limited by the checker's integer range.   *)
(***************************************************************************)
EXTENDS Integers, Sequences, FiniteSets, TLC

VARIABLES
    internal,         \* BitStream.internal: the bytes, each a set of bit positions 0..7
    byte_length,      \* BitStream.byte_length
    endianness,       \* BitStream.endianness: "Little" or "Big"
    index,            \* BitStream.index, in bits
    sliced,           \* the client's second BitStream: the one the last successful slice
                      \* returned or the source of write_bitstream, or NoStream
    overflow_checks,  \* build profile: TRUE = overflow checks on (debug), FALSE = off (release)
    prog,             \* the calls a scripted client still has to make
    free,             \* TRUE when the client picks any call of the alphabet at each step
    steps,            \* calls made so far
    out,              \* the record of the calls made (scripted: all; free: the last)
    pool              \* an ObjectPool: its objects map and its by_category sets

vars == <<internal, byte_length, endianness, index, sliced, overflow_checks,
          prog, free, steps, out, pool>>

(***************************************************************************)
(* Bounds of the model.                                                    *)
(***************************************************************************)
\* calls a free client makes
MaxOps == 3
\* byte length of the larger raw-round-trip buffer
MaxLen == 5
\* ids the objects given to an ObjectPool are drawn from: 1 .. MaxIds
MaxIds == 3

(***************************************************************************)
(* Program constants.                                                      *)
(***************************************************************************)
\* "Reads/Writes must be in chunks of at most 32 bits"
MaxBits == 32

(***************************************************************************)
(* Bit vectors.                                                            *)
(***************************************************************************)
Min(a, b) == IF a < b THEN a ELSE b

Pow2(k) == 2 ^ k

U8 == 0 .. 7
U32 == 0 .. 31
U64 == 0 .. 63
U128 == 0 .. 127

\* the bits of a non-negative literal below 2^31
Lit(n) == {i \in 0 .. 30 : (n \div Pow2(i)) % 2 = 1}

And(a, b) == a \cap b
Or(a, b) == a \cup b
Xor(a, b) == (a \ b) \cup (b \ a)
\* !a, a << k and a >> k on a type of the width W (a set 0..w-1)
NotW(W, a) == W \ a
ShlW(W, a, k) == {i + k : i \in a} \cap W
Shr(a, k) == {i - k : i \in {j \in a : j >= k}}
Not32(a) == NotW(U32, a)
Shl32(a, k) == ShlW(U32, a, k)
\* `x as u8`, `x as u32`: truncation to the low bits
AsU8(a) == a \cap U8
AsU32(a) == a \cap U32

RECURSIVE BitsToNat(_)
\* the number a bit set below 2^31 stands for
BitsToNat(a) ==
    IF a = {} THEN 0
    ELSE LET i == CHOOSE j \in a : TRUE IN Pow2(i) + BitsToNat(a \ {i})

\* `x as i32` read as a number: two's complement over 32 bits
ToI32(a) ==
    IF 31 \in a THEN -(BitsToNat((0 .. 30) \ a)) - 1 ELSE BitsToNat(a)

(***************************************************************************)
(* BitStream values and the outcome of a call.                             *)
(***************************************************************************)
Endians == {"Little", "Big"}

Self == [internal |-> internal, byte_length |-> byte_length,
         endianness |-> endianness, index |-> index]

NoStream == [internal |-> <<>>, byte_length |-> 0 - 1,
             endianness |-> "none", index |-> 0 - 1]

\* The outcome of a call: the stream it leaves, whether it returned (ok) or
\* panicked, and what it returned: an unsigned integer's bits (ret), a bool
\* (flag), a String (str, its code points), an i64 or i128 (int, its sign and
\* the bits of its magnitude), an f64 (float), a BitStream (made), a dequantized
\* f64 (real, a fraction num / den) or a Vec2D of two of them (vec).
NoReal == [num |-> 0, den |-> 1]
NoVec == [x |-> NoReal, y |-> NoReal]

Ok(s, ret) == [s |-> s, ok |-> TRUE, ret |-> ret, flag |-> FALSE, str |-> <<>>,
               int |-> [neg |-> FALSE, mag |-> {}],
               float |-> [kind |-> "finite", neg |-> FALSE, mag |-> {}],
               made |-> NoStream, real |-> NoReal, vec |-> NoVec]
\* the call panicked, leaving the stream as s
Panic(s) == [s |-> s, ok |-> FALSE, ret |-> {}, flag |-> FALSE, str |-> <<>>,
             int |-> [neg |-> FALSE, mag |-> {}],
             float |-> [kind |-> "finite", neg |-> FALSE, mag |-> {}],
             made |-> NoStream, real |-> NoReal, vec |-> NoVec]

new(length) == [internal |-> [i \in 1 .. length |-> {}], byte_length |-> length,
                endianness |-> "Little", index |-> 0]

set_index_unchecked(s, b) == Ok([s EXCEPT !.index = b], {})

\* set_index that takes the end of the buffer too
set_index_inclusive(s, b) ==
    IF ~(b <= s.byte_length * 8) THEN Panic(s)
    ELSE Ok([s EXCEPT !.index = b], {})

set_index(s, b) ==
    IF ~(b < s.byte_length * 8) THEN Panic(s)
    ELSE Ok([s EXCEPT !.index = b], {})

set_endianness(s, e) == Ok([s EXCEPT !.endianness = e], {})

bits_left(s) == s.byte_length * 8 - s.index

\* Big: value = value << to_read | read_bits
ReadChunkBigNoShift(value, chunk, to_read) == Or(value, chunk)

ReadChunkBig(value, chunk, to_read) == Or(Shl32(value, to_read), chunk)

\* Little: value |= read_bits << i
ReadChunkLittle(value, chunk, i) == Or(value, Shl32(chunk, i))

RECURSIVE ReadLoop(_, _, _, _)
\* the while loop of read_bits
ReadLoop(s, bits, i, value) ==
    IF ~(i < bits) THEN Ok(s, value)
    ELSE IF (s.index \div 8) + 1 > Len(s.internal) THEN Panic(s)
    ELSE
        LET remaining == bits - i
            bit_offset == s.index % 8
            current_byte == s.internal[(s.index \div 8) + 1]
            to_read == Min(remaining, 8 - bit_offset)
            mask == Not32(Shl32(Lit(255), to_read))
            next == IF s.endianness = "Big"
                    THEN ReadChunkBig(value,
                            And(Shr(current_byte, 8 - to_read - bit_offset), mask),
                            to_read)
                    ELSE ReadChunkLittle(value,
                            And(Shr(current_byte, bit_offset), mask), i)
        IN  ReadLoop([s EXCEPT !.index = @ + to_read], bits, i + to_read, next)

\* read_bits without its assert! on the width
read_bits_any_width(s, bits) ==
    IF bits > s.byte_length * 8 - s.index THEN Panic(s)
    ELSE ReadLoop(s, bits, 0, {})

read_bits_unchecked(s, bits) ==
    IF ~(bits <= MaxBits) THEN Panic(s)
    ELSE ReadLoop(s, bits, 0, {})

read_bits(s, bits) ==
    IF ~(bits <= MaxBits) THEN Panic(s)
    ELSE IF bits > s.byte_length * 8 - s.index THEN Panic(s)
    ELSE ReadLoop(s, bits, 0, {})

read_bits_signed(s, bits) ==
    LET r == read_bits(s, bits) IN
    IF ~r.ok THEN r
    \* 1 << 32 on a u32 overflows: a panic with overflow checks, 1 << 0 without
    ELSE IF bits = 32 /\ overflow_checks THEN Panic(r.s)
    ELSE LET most_significant_bit == IF bits = 32 THEN {} ELSE 0 .. (bits - 1)
         IN  IF bits # 32 /\ And(r.ret, most_significant_bit) # {}
             THEN Ok(r.s, Or(r.ret, Xor(U32, most_significant_bit)))
             ELSE Ok(r.s, r.ret)

\* a usize shift amount that went below 0 wraps, and >> keeps its low 5 bits
WrapShift(amt) == ((amt % 32) + 32) % 32

SetByte(s, byte_offset, b) == [s EXCEPT !.internal[byte_offset + 1] = b]

\* Little: val >>= to_write
NextValKept(val, to_write) == val

NextVal(val, to_write) == Shr(val, to_write)

RECURSIVE WriteLoop(_, _, _, _)
\* the while loop of write_bits_us
WriteLoop(s, bits, i, val) ==
    IF ~(i < bits) THEN Ok(s, {})
    ELSE IF (s.index \div 8) + 1 > Len(s.internal) THEN Panic(s)
    ELSE
        LET remaining == bits - i
            bit_offset == s.index % 8
            byte_offset == s.index \div 8
            to_write == Min(remaining, 8 - bit_offset)
            target == s.internal[byte_offset + 1]
        IN  IF s.endianness = "Big"
            THEN LET amt == bits - s.index - to_write
                     mask == Not32(Shl32(U32, to_write))
                     write_bits == And(Shr(val, WrapShift(amt)), mask)
                     dest_shift == 8 - bit_offset - to_write
                     dest_mask == Not32(Shl32(mask, dest_shift))
                     byte == AsU8(Or(And(target, dest_mask),
                                     Shl32(write_bits, dest_shift)))
                 IN  IF amt < 0 /\ overflow_checks THEN Panic(s)
                     ELSE WriteLoop([SetByte(s, byte_offset, byte)
                                        EXCEPT !.index = @ + to_write],
                                    bits, i + to_write, val)
            ELSE LET mask == Not32(Shl32(Lit(255), to_write))
                     write_bits == And(val, mask)
                     dest_mask == Not32(Shl32(mask, bit_offset))
                     byte == AsU8(Or(And(target, dest_mask),
                                     Shl32(write_bits, bit_offset)))
                 IN  WriteLoop([SetByte(s, byte_offset, byte)
                                   EXCEPT !.index = @ + to_write],
                               bits, i + to_write, NextVal(val, to_write))

write_bits_us(s, value, bits) ==
    IF ~(bits <= MaxBits) THEN Panic(s)
    ELSE IF bits > s.byte_length * 8 - s.index THEN Panic(s)
    ELSE WriteLoop(s, bits, 0, value)

\* `x as u32` of an i32 x: its two's complement bits
I32AsU32(x) == IF x >= 0 THEN Lit(x) ELSE U32 \ Lit(0 - x - 1)

write_bits(s, value, bits) == write_bits_us(s, I32AsU32(value), bits)

\* isize values compared after `as usize`: a negative one wraps to the top of the range
UsizeGt(x, y) ==
    IF x < 0 /\ y >= 0 THEN TRUE
    ELSE IF x >= 0 /\ y < 0 THEN FALSE
    ELSE x > y

slice(s, start, end) ==
    LET norm_start == (IF start < 0 THEN s.byte_length ELSE 0) + start
        norm_end == (IF end < 0 THEN s.byte_length ELSE 0) + end
    IN  IF ~(norm_start > norm_end) THEN Panic(s)
        ELSE IF ~UsizeGt(norm_start, s.byte_length) THEN Panic(s)
        ELSE IF ~UsizeGt(norm_end, s.byte_length) THEN Panic(s)
        \* self.internal[u_start..u_end]: start above end, or end above the length
        ELSE IF UsizeGt(norm_start, norm_end) \/ UsizeGt(norm_end, Len(s.internal))
             THEN Panic(s)
        ELSE [Ok(s, {}) EXCEPT
              !.made = [internal |-> SubSeq(s.internal, norm_start + 1, norm_end),
                        byte_length |-> norm_end - norm_start,
                        endianness |-> s.endianness, index |-> 0]]

(***************************************************************************)
(* The convenience surface of the Stream trait.                            *)
(***************************************************************************)
write_boolean(s, value) == write_bits_us(s, IF value THEN {0} ELSE {}, 1)

read_boolean(s) ==
    LET r == read_bits(s, 1) IN
    IF ~r.ok THEN r ELSE [r EXCEPT !.ret = {}, !.flag = (r.ret = {0})]

\* value: the bits of a u8
write_uint8(s, value) == write_bits_us(s, value, 8)

read_uint8(s) ==
    LET r == read_bits(s, 8) IN
    IF ~r.ok THEN r ELSE [r EXCEPT !.ret = AsU8(r.ret)]

\* An i8, i16 or i32 is the set of the 1 bits of its two's complement form.
\* `x as u32` of an i8 / i16 x: the sign bit fills the bits above it
I8AsU32(x) == IF 7 \in x THEN x \cup (8 .. 31) ELSE x
I16AsU32(x) == IF 15 \in x THEN x \cup (16 .. 31) ELSE x

\* `x as i16` / `x as u16` of a u32 x
AsU16(x) == x \cap (0 .. 15)

\* value: the bits of an i8
write_int4(s, value) == write_bits_us(s, I8AsU32(And(value, Lit(15))), 4)

read_int4(s) ==
    LET r == read_bits_signed(s, 4) IN
    IF ~r.ok THEN r ELSE [r EXCEPT !.ret = AsU8(r.ret)]

\* value: the bits of a u8
write_uint4(s, value) == write_bits_us(s, And(value, Lit(15)), 4)

read_uint4(s) ==
    LET r == read_bits(s, 4) IN
    IF ~r.ok THEN r ELSE [r EXCEPT !.ret = AsU8(r.ret)]

write_int8(s, value) == write_bits_us(s, And(I8AsU32(value), Lit(255)), 8)

read_int8(s) ==
    LET r == read_bits_signed(s, 8) IN
    IF ~r.ok THEN r ELSE [r EXCEPT !.ret = AsU8(r.ret)]

write_int16(s, value) == write_bits_us(s, And(I16AsU32(value), Lit(65535)), 16)

\* read_int16 without the `as i16` that cuts the result to 16 bits
read_int16_untruncated(s) == read_bits_signed(s, 16)

read_int16(s) ==
    LET r == read_bits_signed(s, 16) IN
    IF ~r.ok THEN r ELSE [r EXCEPT !.ret = AsU16(r.ret)]

\* value: the bits of a u16
write_uint16(s, value) == write_bits_us(s, value, 16)

read_uint16(s) ==
    LET r == read_bits(s, 16) IN
    IF ~r.ok THEN r ELSE [r EXCEPT !.ret = AsU16(r.ret)]

write_uint32(s, value) == write_bits_us(s, value, 32)

read_uint32(s) == read_bits(s, 32)

\* value: the bits of an i32, which `as u32` keeps
write_int32(s, value) == write_uint32(s, value)

read_int32(s) == read_uint32(s)

\* Option<usize>::None
None == 0 - 1

\* the whole of what is left to copy, in one piece
ChunkWhole(to_write) == to_write

\* min(to_write, 32)
Chunk(to_write) == Min(to_write, 32)

RECURSIVE WriteBitstreamLoop(_, _, _)
\* the while loop of write_bitstream; made is the source stream as it is left
WriteBitstreamLoop(s, stream, to_write) ==
    IF ~(to_write > 0) THEN [Ok(s, {}) EXCEPT !.made = stream]
    ELSE
        LET chunk == Chunk(to_write)
            r == read_bits(stream, chunk)
            w == write_bits_us(s, r.ret, chunk)
        IN  IF ~r.ok THEN [Panic(s) EXCEPT !.made = r.s]
            ELSE IF ~w.ok THEN [Panic(w.s) EXCEPT !.made = r.s]
            ELSE WriteBitstreamLoop(w.s, r.s, to_write - chunk)

\* self.write_bitstream(stream, bits)
write_bitstream(s, stream, bits) ==
    WriteBitstreamLoop(s, stream, IF bits # None THEN bits ELSE bits_left(s))

\* SuroiBitStream (utils/suroi_bitstream.rs) forwards the Stream calls to the
\* BitStream it wraps; s is that BitStream.
\* 8 - self.get_index() % 8
AlignOffset(s) == 8 - (s.index % 8)

write_align_to_next_byte(s) ==
    LET offset == AlignOffset(s) IN
    IF offset < 8 THEN write_bits(s, 0, offset) ELSE Ok(s, {})

read_align_to_next_byte(s) ==
    LET offset == AlignOffset(s)
        r == read_bits(s, offset)
    IN  IF offset < 8 THEN (IF ~r.ok THEN r ELSE Ok(r.s, {})) ELSE Ok(s, {})

\* GAME_CONSTANTS.max_position
max_position == 1632

\* write_float for whole numbers value, min and max.  The quotient
\* (clamped - min) / (max - min) * (2^bit_count - 1) + 0.5 is truncated as an
\* exact fraction; clamp panics on min > max, and with min = max the quotient
\* is 0.0 / 0.0, a NaN, which `as u32` turns into 0
write_float(s, value, min, max, bit_count) ==
    LET clamped == IF value < min THEN min ELSE IF value > max THEN max ELSE value
        scale == Pow2(bit_count) - 1
        quantized ==
            IF max = min THEN 0
            ELSE (2 * (clamped - min) * scale + (max - min)) \div (2 * (max - min))
    IN  IF min > max THEN Panic(s)
        ELSE write_bits_us(s, AsU32(Lit(quantized)), bit_count)

\* read_float for whole numbers min and max: the result
\* min + (max - min) * raw / (2^bit_count - 1) as a fraction over 2^bit_count - 1
read_float(s, min, max, bit_count) ==
    LET r == read_bits(s, bit_count)
        scale == Pow2(bit_count) - 1
    IN  IF ~r.ok THEN r
        ELSE [r EXCEPT !.ret = {},
                       !.real = [num |-> min * scale + (max - min) * BitsToNat(r.ret),
                                 den |-> scale]]

write_vector(s, vec, min_x, max_x, min_y, max_y, bit_count) ==
    LET a == write_float(s, vec.x, min_x, max_x, bit_count)
    IN  IF ~a.ok THEN a ELSE write_float(a.s, vec.y, min_y, max_y, bit_count)

read_vector(s, min_x, max_x, min_y, max_y, bit_count) ==
    LET a == read_float(s, min_x, max_x, bit_count)
        b == read_float(a.s, min_y, max_y, bit_count)
    IN  IF ~a.ok THEN a
        ELSE IF ~b.ok THEN b
        ELSE [b EXCEPT !.real = NoReal, !.vec = [x |-> a.real, y |-> b.real]]

write_position(s, vec) ==
    write_vector(s, vec, 0, 0, max_position, max_position, 16)

read_position(s) == read_vector(s, 0, 0, max_position, max_position, 16)

\* write_array for an array of length elements; the elements themselves are
\* left out and ret counts the calls of element_serializer: the loop runs
\* i = 0, 1, .. below length and breaks at the first i > max
write_array(s, length, bit_count) ==
    LET max == Pow2(bit_count)
        r == write_bits_us(s, AsU32(Lit(length)), bit_count)
    IN  IF ~r.ok THEN r
        ELSE [r EXCEPT !.ret = Lit(Cardinality({i \in 0 .. (length - 1) : ~(i > max)}))]

\* ret counts the calls of element_deserializer
read_array(s, bit_count) == read_bits(s, bit_count)

read_and_create_array(s, bit_count) == read_bits(s, bit_count)


\* the carry into bit i of a + b: generated at some lower bit where both are set
\* and propagated by every bit between
Carry(a, b, i) ==
    \E j \in And(a, b) : j < i /\ \A k \in (j + 1) .. (i - 1) : k \in Or(a, b)

\* a + b on bits of any position
Add(a, b) ==
    {i \in Or(a, b) \cup {j + 1 : j \in Or(a, b)} :
        (i \in a) # ((i \in b) # Carry(a, b, i))}

\* a + b on a type of the width W, wrapping
AddW(W, a, b) == Add(a, b) \cap W

\* `x as u64` / `x as u128` of a signed x: two's complement of the magnitude
SignedAsUnsigned(W, x) ==
    IF x.neg THEN AddW(W, NotW(W, x.mag), {0}) ELSE x.mag

\* `b as i64` / `b as i128`: the top bit of W is the sign
UnsignedAsSigned(W, b) ==
    IF (Cardinality(W) - 1) \in b
    THEN [neg |-> TRUE, mag |-> AddW(W, NotW(W, b), {0})]
    ELSE [neg |-> FALSE, mag |-> b]

\* write_uint64 with the chunks in the other order
write_uint64_high_first(s, value) ==
    LET r1 == write_bits_us(s, AsU32(Shr(value, 32)), 32) IN
    IF ~r1.ok THEN r1
    ELSE write_bits_us(r1.s, AsU32(And(value, U32)), 32)

\* value: the bits of a u64
write_uint64(s, value) ==
    LET r1 == write_bits_us(s, AsU32(And(value, U32)), 32) IN
    IF ~r1.ok THEN r1
    ELSE write_bits_us(r1.s, AsU32(Shr(value, 32)), 32)

read_uint64(s) ==
    LET r1 == read_bits(s, 32) IN
    IF ~r1.ok THEN r1
    ELSE LET r2 == read_bits(r1.s, 32) IN
         IF ~r2.ok THEN r2
         ELSE Ok(r2.s, AddW(U64, r1.ret, ShlW(U64, r2.ret, 32)))

\* value: an i64 as its sign and magnitude
write_int64(s, value) == write_uint64(s, SignedAsUnsigned(U64, value))

read_int64(s) ==
    LET r == read_uint64(s) IN
    IF ~r.ok THEN r
    ELSE [r EXCEPT !.ret = {}, !.int = UnsignedAsSigned(U64, r.ret)]

\* value: the bits of a u128
write_uint128(s, value) ==
    LET r1 == write_bits_us(s, AsU32(And(value, U32)), 32) IN
    IF ~r1.ok THEN r1
    ELSE LET r2 == write_bits_us(r1.s, AsU32(And(Shr(value, 32), U32)), 32) IN
    IF ~r2.ok THEN r2
    ELSE LET r3 == write_bits_us(r2.s, AsU32(And(Shr(value, 64), U32)), 32) IN
    IF ~r3.ok THEN r3
    ELSE write_bits_us(r3.s, AsU32(And(Shr(value, 96), U32)), 32)

read_uint128(s) ==
    LET r1 == read_bits(s, 32) IN
    IF ~r1.ok THEN r1
    ELSE LET r2 == read_bits(r1.s, 32) IN
    IF ~r2.ok THEN r2
    ELSE LET r3 == read_bits(r2.s, 32) IN
    IF ~r3.ok THEN r3
    ELSE LET r4 == read_bits(r3.s, 32) IN
    IF ~r4.ok THEN r4
    ELSE Ok(r4.s, AddW(U128,
                       AddW(U128,
                            AddW(U128, r1.ret, ShlW(U128, r2.ret, 32)),
                            ShlW(U128, r3.ret, 64)),
                       ShlW(U128, r4.ret, 96)))

write_int128(s, value) == write_uint128(s, SignedAsUnsigned(U128, value))

read_int128(s) ==
    LET r == read_uint128(s) IN
    IF ~r.ok THEN r
    ELSE [r EXCEPT !.ret = {}, !.int = UnsignedAsSigned(U128, r.ret)]

(***************************************************************************)
(* The float codec (utils/decimal.rs).  An f64 or f32 is its kind, its     *)
(* sign and, when finite, its magnitude as the set of the exponents of the *)
(* powers of two that sum to it (1.5 is {0, -1}); a NaN keeps the bits of  *)
(* its mantissa field in mag.                                              *)
(***************************************************************************)
Max(a, b) == IF a > b THEN a ELSE b

Finite(neg, mag) == [kind |-> "finite", neg |-> neg, mag |-> mag]
Infinite(neg) == [kind |-> "inf", neg |-> neg, mag |-> {}]
\* f64::NAN, 0x7FF8000000000000
NAN == [kind |-> "nan", neg |-> FALSE, mag |-> {51}]
Zero == Finite(FALSE, {})
One == Finite(FALSE, {0})

\* i32::MAX and i32::MIN, where `as i32` saturates
I32Max == 2147483647
I32Min == (0 - I32Max) - 1

\* the greatest exponent of a non-empty magnitude
Top(S) == CHOOSE i \in S : \A j \in S : j <= i

\* The float nearest the exact magnitude S (ties to even) in a format of p
\* significant bits whose least subnormal is 2^least and greatest exponent emax.
RoundTo(p, least, emax, neg, S) ==
    IF S = {} THEN Finite(neg, {})
    ELSE LET q == Max(Top(S) - p + 1, least)
             kept == {i \in S : i >= q}
             up == (q - 1) \in S /\ (q \in S \/ \E i \in S : i < q - 1)
             r == IF up THEN Add(kept, {q}) ELSE kept
         IN  IF r = {} THEN Finite(neg, {})
             ELSE IF Top(r) > emax THEN Infinite(neg)
             ELSE Finite(neg, r)

\* the result of an f64 operation whose exact value is S
RoundF64(neg, S) == RoundTo(53, 0 - 1074, 1023, neg, S)

\* `val as f32`; a NaN keeps the top of its payload and is quiet
F64AsF32(x) ==
    IF x.kind = "finite" THEN RoundTo(24, 0 - 149, 127, x.neg, x.mag)
    ELSE IF x.kind = "nan" THEN [x EXCEPT !.mag = Shr(x.mag, 29) \cup {22}]
    ELSE x

\* `x as f64` of an f32: exact; a NaN is made quiet
F32AsF64(x) ==
    IF x.kind = "nan" THEN [x EXCEPT !.mag = {i + 29 : i \in x.mag} \cup {51}]
    ELSE x

\* to_bits that leaves the sign bit out
ToBitsUnsigned(ebits, mbits, x) ==
    LET bias == Pow2(ebits - 1) - 1
        ones == mbits .. (mbits + ebits - 1)
    IN  IF x.kind = "inf" THEN ones
        ELSE IF x.kind = "nan" THEN ones \cup x.mag
        ELSE IF x.mag = {} THEN {}
        ELSE LET t == Top(x.mag) IN
             IF t >= 1 - bias
             THEN {i + mbits : i \in Lit(t + bias)}
                      \cup {(i - t) + mbits : i \in x.mag \ {t}}
             ELSE {(i - (1 - bias)) + mbits : i \in x.mag}

\* f32::to_bits (ebits = 8, mbits = 23) and f64::to_bits (11, 52): the sign,
\* the biased exponent and the mantissa without its leading bit
ToBits(ebits, mbits, x) ==
    LET bias == Pow2(ebits - 1) - 1
        sign == IF x.neg THEN {ebits + mbits} ELSE {}
        ones == mbits .. (mbits + ebits - 1)
    IN  IF x.kind = "inf" THEN sign \cup ones
        ELSE IF x.kind = "nan" THEN sign \cup ones \cup x.mag
        ELSE IF x.mag = {} THEN sign
        ELSE LET t == Top(x.mag) IN
             IF t >= 1 - bias
             THEN sign \cup {i + mbits : i \in Lit(t + bias)}
                       \cup {(i - t) + mbits : i \in x.mag \ {t}}
             ELSE sign \cup {(i - (1 - bias)) + mbits : i \in x.mag}

\* f32::from_bits and f64::from_bits
FromBits(ebits, mbits, b) ==
    LET bias == Pow2(ebits - 1) - 1
        neg == (ebits + mbits) \in b
        e == BitsToNat({i - mbits : i \in b \cap (mbits .. (mbits + ebits - 1))})
        man == b \cap (0 .. (mbits - 1))
    IN  IF e = Pow2(ebits) - 1
        THEN (IF man = {} THEN Infinite(neg)
              ELSE [kind |-> "nan", neg |-> neg, mag |-> man])
        ELSE IF e = 0 THEN Finite(neg, {(i - mbits) + (1 - bias) : i \in man})
        ELSE Finite(neg, {e - bias} \cup {(i - mbits) + (e - bias) : i \in man})

is_nan(x) == x.kind = "nan"
abs(x) == [x EXCEPT !.neg = FALSE]

\* a < b on magnitudes
MagLt(a, b) == a # b /\ Top(Xor(a, b)) \in b

\* x < y on f64 (false when either is NaN)
Lt(x, y) ==
    LET zero(v) == v.kind = "finite" /\ v.mag = {}
        below(v, w) == IF v.kind = "inf" THEN FALSE
                       ELSE IF w.kind = "inf" THEN TRUE
                       ELSE MagLt(v.mag, w.mag)
    IN  IF is_nan(x) \/ is_nan(y) THEN FALSE
        ELSE IF zero(x) /\ zero(y) THEN FALSE
        ELSE IF x.neg # y.neg THEN x.neg
        ELSE IF x.neg THEN below(y, x) ELSE below(x, y)

\* x >= y on f64
Ge(x, y) == ~is_nan(x) /\ ~is_nan(y) /\ ~Lt(x, y)

\* 2_f64.powi(n)
Powi2(n) ==
    IF n > 1023 THEN Infinite(FALSE)
    ELSE IF n < 0 - 1074 THEN Zero
    ELSE Finite(FALSE, {n})

\* `val.log2().floor() as i32`: log2 is NaN below zero and -inf at zero, and the
\* cast sends NaN to 0 and saturates.  For a positive finite val the floor is
\* the exponent of its leading bit (the computed logarithm of the values used
\* here is not within rounding of an integer from below).
Log2FloorAsI32(val) ==
    IF is_nan(val) THEN 0
    ELSE IF val.kind = "finite" /\ val.mag = {} THEN I32Min
    ELSE IF val.neg THEN 0
    ELSE IF val.kind = "inf" THEN I32Max
    ELSE Top(val.mag)

\* x / c and c * x on f64, where c is 2_f64.powi(n) for some n and x >= 0
DivPow2(x, c) ==
    IF is_nan(x) THEN x
    ELSE IF c.kind = "inf" THEN (IF x.kind = "inf" THEN NAN ELSE Zero)
    ELSE IF x.kind = "inf" THEN x
    ELSE RoundF64(x.neg, {i - Top(c.mag) : i \in x.mag})

MulPow2(c, x) ==
    IF is_nan(x) THEN x
    ELSE IF c.kind = "inf" THEN (IF x.kind = "finite" /\ x.mag = {} THEN NAN ELSE c)
    ELSE IF x.kind = "inf" THEN x
    ELSE RoundF64(x.neg, {i + Top(c.mag) : i \in x.mag})

\* `sign as f64 * x` for sign = -1 or 1
MulSign(negative, x) == IF negative THEN [x EXCEPT !.neg = ~x.neg] ELSE x

\* a + b on u128 where a may be i32::MAX
PlusBias(whole_bits, exponent_bias) ==
    IF whole_bits >= 0 THEN AddW(U128, Lit(whole_bits), Lit(exponent_bias))
    ELSE Lit(whole_bits + exponent_bias)

\* new_sign whose two assertions are each off by one
new_sign_lax(bits, exponent_bits, signed) ==
    LET mantissa_width == bits - exponent_bits - (IF signed THEN 1 ELSE 0)
        special_exp == Pow2(exponent_bits) - 1
        hidden_bit == {mantissa_width}
        one_shifted_ebm1 == Pow2(exponent_bits - 1)
        exponent_bias == one_shifted_ebm1 - 1
        subnormal_exp == 1 - exponent_bias
    IN  [ok |-> bits <= 129 /\ exponent_bits <= bits,
         bits |-> bits,
         exponent_bits |-> exponent_bits,
         signed |-> signed,
         mantissa_width |-> mantissa_width,
         sign_mask |-> IF signed THEN {bits - 1} ELSE {},
         exponent_mask |-> mantissa_width .. (mantissa_width + exponent_bits - 1),
         mantissa_mask |-> 0 .. (mantissa_width - 1),
         subnormal_threshold |-> 0 - exponent_bias,
         exponent_bias |-> exponent_bias,
         subnormal_coeff |-> Powi2(subnormal_exp),
         special_exp |-> special_exp,
         hidden_bit |-> hidden_bit,
         max_value |-> Powi2(one_shifted_ebm1),
         min_value |-> Powi2(subnormal_exp - mantissa_width)]

\* DecimalSerializer::new_sign for exponent_bits >= 1; ok is FALSE where an
\* assert! fails
new_sign(bits, exponent_bits, signed) ==
    LET mantissa_width == bits - exponent_bits - (IF signed THEN 1 ELSE 0)
        special_exp == Pow2(exponent_bits) - 1
        hidden_bit == {mantissa_width}
        one_shifted_ebm1 == Pow2(exponent_bits - 1)
        exponent_bias == one_shifted_ebm1 - 1
        subnormal_exp == 1 - exponent_bias
    IN  [ok |-> bits <= 128 /\ exponent_bits < bits,
         bits |-> bits,
         exponent_bits |-> exponent_bits,
         signed |-> signed,
         mantissa_width |-> mantissa_width,
         sign_mask |-> IF signed THEN {bits - 1} ELSE {},
         exponent_mask |-> mantissa_width .. (mantissa_width + exponent_bits - 1),
         mantissa_mask |-> 0 .. (mantissa_width - 1),
         subnormal_threshold |-> 0 - exponent_bias,
         exponent_bias |-> exponent_bias,
         subnormal_coeff |-> Powi2(subnormal_exp),
         special_exp |-> special_exp,
         hidden_bit |-> hidden_bit,
         max_value |-> Powi2(one_shifted_ebm1),
         min_value |-> Powi2(subnormal_exp - mantissa_width)]

\* 2_f64 / 3_f64 = 0x3FE5555555555555
LAST_BIT_ROUND_THRESHOLD == Finite(FALSE, {0 - (2 * k + 1) : k \in 0 .. 26})

\* one pass of the while loop of to_inverse_binary, where bits has been
\* decremented to b; st holds value and res
ToInverseBinaryStep(st, b) ==
    LET \* (value % 1.0) * 2.0
        v == IF st.value.kind = "finite"
             THEN Finite(st.value.neg, {i + 1 : i \in {j \in st.value.mag : j < 0}})
             ELSE NAN
    IN  [value |-> v,
         res |-> IF Ge(v, One) \/ (b = 0 /\ Ge(v, LAST_BIT_ROUND_THRESHOLD))
                 THEN Or(st.res, {b}) ELSE st.res]

RECURSIVE ToInverseBinaryLoop(_, _, _)
\* the passes of the loop for bits = hi down to lo, one after the other (the
\* range is halved only to keep the evaluation shallow; once value is zero
\* the passes left set no bit)
ToInverseBinaryLoop(st, hi, lo) ==
    IF hi = lo THEN ToInverseBinaryStep(st, hi)
    ELSE LET mid == (hi + lo) \div 2
             first == ToInverseBinaryLoop(st, hi, mid + 1)
         IN  IF first.value.mag = {} THEN first
             ELSE ToInverseBinaryLoop(first, mid, lo)

\* to_inverse_binary with every bit one place too high
to_inverse_binary_shifted(value, bits) ==
    IF ~(bits > 0) THEN {}
    ELSE ShlW(U128, ToInverseBinaryLoop([value |-> value, res |-> {}], bits - 1, 0).res, 1)

to_inverse_binary(value, bits) ==
    IF ~(bits > 0) THEN {}
    ELSE ToInverseBinaryLoop([value |-> value, res |-> {}], bits - 1, 0).res

\* self: a DecimalSerializer; value: an f64; returns the bits of a u128
encode_ieee(self, value) ==
    LET val == value
        whole_bits == Log2FloorAsI32(val)
        is_subnormal == whole_bits <= self.subnormal_threshold
        can_use_builtin == ~is_nan(val) /\ ~is_subnormal /\ self.signed
        sign == IF self.signed /\ Lt(val, Zero) THEN self.sign_mask ELSE {}
        exponent == IF is_subnormal THEN {}
                    ELSE ShlW(U128, PlusBias(whole_bits, self.exponent_bias),
                              self.mantissa_width)
        mantissa == to_inverse_binary(
                        DivPow2(abs(val), IF is_subnormal THEN self.subnormal_coeff
                                          ELSE Powi2(whole_bits)),
                        self.mantissa_width)
    IN  IF self.bits = 32 /\ self.exponent_bits = 8 /\ can_use_builtin
        THEN ToBits(8, 23, F64AsF32(val))
        ELSE IF self.bits = 64 /\ self.exponent_bits = 11 /\ can_use_builtin
        THEN ToBits(11, 52, val)
        ELSE IF Lt(abs(val), self.min_value) THEN {}
        ELSE IF is_nan(val) \/ Lt(self.max_value, abs(val))
        THEN Or(Or(self.exponent_mask, IF is_nan(val) THEN {0} ELSE {}), sign)
        ELSE AddW(U128, AddW(U128, sign, exponent), mantissa)

\* self: a DecimalSerializer; val: the bits of a u128; returns an f64
decode_ieee(self, val) ==
    LET exponent == BitsToNat(Shr(And(val, self.exponent_mask), self.mantissa_width))
        raw_value == DivPow2(RoundF64(FALSE, And(val, self.mantissa_mask)),
                             Finite(FALSE, self.hidden_bit))
        is_special_exp == exponent = self.special_exp
        zero_mantissa == raw_value = Zero
        is_subnormal == exponent = 0
        can_use_builtins == (~is_special_exp \/ ~zero_mantissa) /\ ~is_subnormal
                               /\ self.signed
        negative == self.signed /\ And(val, self.sign_mask) # {}
    IN  IF self.bits = 32 /\ self.exponent_bits = 8 /\ can_use_builtins
        THEN F32AsF64(FromBits(8, 23, And(val, U32)))
        ELSE IF self.bits = 64 /\ self.exponent_bits = 11 /\ can_use_builtins
        THEN FromBits(11, 52, And(val, U64))
        ELSE MulSign(negative,
                 IF is_subnormal THEN MulPow2(self.subnormal_coeff, raw_value)
                 ELSE IF is_special_exp
                 THEN (IF zero_mantissa THEN Infinite(FALSE) ELSE NAN)
                 ELSE MulPow2(Powi2(exponent - self.exponent_bias),
                              RoundF64(FALSE, raw_value.mag \cup {0})))

(***************************************************************************)
(* The string codec (utils/string_utils.rs).  A string is the sequence of  *)
(* its chars' code points; a byte array is a sequence of u8 bit sets.      *)
(***************************************************************************)
\* the match arm of string_to_byte_array for one char
CharToBytes(cp) ==
    LET unicode == Lit(cp) IN
    IF cp <= 127 THEN <<AsU8(unicode)>>
    ELSE IF cp <= 2047
    THEN <<AsU8(Or(Shr(unicode, 6), Lit(192))),
           AsU8(Or(And(unicode, Lit(63)), Lit(128)))>>
    ELSE IF cp <= 524287
    THEN <<AsU8(Or(Shr(unicode, 12), Lit(224))),
           AsU8(Or(And(Shr(unicode, 6), Lit(63)), Lit(128))),
           AsU8(Or(And(unicode, Lit(63)), Lit(128)))>>
    ELSE <<AsU8(Or(Shr(unicode, 18), Lit(240))),
           AsU8(Or(And(Shr(unicode, 12), Lit(63)), Lit(128))),
           AsU8(Or(And(Shr(unicode, 6), Lit(63)), Lit(128))),
           AsU8(Or(And(unicode, Lit(63)), Lit(128)))>>

RECURSIVE string_to_byte_array(_)
string_to_byte_array(string) ==
    IF string = <<>> THEN <<>>
    ELSE CharToBytes(Head(string)) \o string_to_byte_array(Tail(string))

\* a continuation byte b (a number) whose value lies in lo..hi
Cont(b, lo, hi) == lo <= b /\ b <= hi

RECURSIVE Utf8Decode(_)
\* String::from_utf8 on bytes given as numbers: the code points, or ok = FALSE
\* when the bytes are not well-formed UTF-8 (overlong forms, surrogates and
\* code points above U+10FFFF included)
Utf8Decode(b) ==
    IF b = <<>> THEN [ok |-> TRUE, str |-> <<>>]
    ELSE
        LET b0 == b[1]
            n == IF b0 <= 127 THEN 1
                 ELSE IF 194 <= b0 /\ b0 <= 223 THEN 2
                 ELSE IF 224 <= b0 /\ b0 <= 239 THEN 3
                 ELSE IF 240 <= b0 /\ b0 <= 244 THEN 4
                 ELSE 0
            wellformed ==
                /\ n > 0 /\ Len(b) >= n
                /\ n >= 2 =>
                      Cont(b[2],
                           IF b0 = 224 THEN 160 ELSE IF b0 = 240 THEN 144 ELSE 128,
                           IF b0 = 237 THEN 159 ELSE IF b0 = 244 THEN 143 ELSE 191)
                /\ n >= 3 => Cont(b[3], 128, 191)
                /\ n >= 4 => Cont(b[4], 128, 191)
            cp == IF n = 1 THEN b0
                  ELSE IF n = 2 THEN (b0 - 192) * 64 + (b[2] - 128)
                  ELSE IF n = 3
                  THEN (b0 - 224) * 4096 + (b[2] - 128) * 64 + (b[3] - 128)
                  ELSE (b0 - 240) * 262144 + (b[2] - 128) * 4096
                       + (b[3] - 128) * 64 + (b[4] - 128)
        IN  IF ~wellformed THEN [ok |-> FALSE, str |-> <<>>]
            ELSE LET rest == Utf8Decode(SubSeq(b, n + 1, Len(b)))
                 IN  IF ~rest.ok THEN rest
                     ELSE [ok |-> TRUE, str |-> <<cp>> \o rest.str]

\* str::is_ascii
is_ascii(string) == \A k \in 1 .. Len(string) : string[k] <= 127

RECURSIVE ReadStringLoop(_, _, _, _, _, _)
\* the while loop of read_string; chars holds the bytes as numbers
ReadStringLoop(s, i, chars, append, fixed_length, real_length) ==
    IF ~(i < real_length) THEN [Ok(s, {}) EXCEPT !.str = chars]
    ELSE LET r == read_uint8(s) IN
         IF ~r.ok THEN r
         ELSE IF r.ret = {} /\ ~fixed_length THEN [Ok(r.s, {}) EXCEPT !.str = chars]
         ELSE LET app == append /\ r.ret # {}
              IN  ReadStringLoop(r.s, i + 1,
                                 IF app THEN Append(chars, BitsToNat(r.ret)) ELSE chars,
                                 app, fixed_length, real_length)

read_string(s, bytes) ==
    IF bytes # None /\ bytes = 0 THEN [Ok(s, {}) EXCEPT !.str = <<>>]
    ELSE
        LET fixed_length == (IF bytes # None THEN bytes ELSE 0) # 0
            real_length == IF bytes # None THEN bytes
                           ELSE s.byte_length * 8 - s.index
            r == ReadStringLoop(s, 0, <<>>, TRUE, fixed_length, real_length)
        IN  IF ~r.ok THEN r
            ELSE LET d == Utf8Decode(r.str)
                 IN  IF ~d.ok THEN Panic(r.s) ELSE [r EXCEPT !.str = d.str]

RECURSIVE WriteBytesLoop(_, _, _, _)
\* for i in 0..length { stream.write_uint8(if i < len { array[i] } else { 0 }) }
WriteBytesLoop(s, array, i, length) ==
    IF ~(i < length) THEN Ok(s, {})
    ELSE LET r == write_uint8(s, IF i < Len(array) THEN array[i + 1] ELSE {})
         IN  IF ~r.ok THEN r ELSE WriteBytesLoop(r.s, array, i + 1, length)

write_utf8_string(s, string, bytes) ==
    LET byte_array == string_to_byte_array(string)
        byte_len == Len(byte_array)
        length == IF bytes # None THEN bytes ELSE byte_len + 1
    IN  WriteBytesLoop(s, byte_array, 0, length)

read_utf8_string(s, bytes) == read_string(s, bytes)

\* write_ascii_string without its assert!
write_ascii_string_unchecked(s, string, bytes) ==
    LET str_len == Len(string)
        length == IF bytes # None THEN bytes ELSE str_len + 1
        chars == [k \in 1 .. Len(string) |-> AsU8(Lit(string[k]))]
    IN  WriteBytesLoop(s, chars, 0, length)

write_ascii_string(s, string, bytes) ==
    IF ~is_ascii(string) THEN Panic(s)
    ELSE
        LET str_len == Len(string)
            length == IF bytes # None THEN bytes ELSE str_len + 1
            chars == [k \in 1 .. Len(string) |-> AsU8(Lit(string[k]))]
        IN  WriteBytesLoop(s, chars, 0, length)

read_ascii_string(s, bytes) ==
    LET r == read_string(s, bytes) IN
    IF ~r.ok THEN r
    ELSE IF ~is_ascii(r.str) THEN Panic(r.s)
    ELSE r

(***************************************************************************)
(* The client: the calls it makes and what it records of each.             *)
(***************************************************************************)
\* a call: the operation and its arguments (those the operation does not take are blank)
(***************************************************************************)
(* The object pool (utils/object_pool.rs).  A GameObject is its type and   *)
(* its id; the objects map is a function from the ids it holds.            *)
(***************************************************************************)
OBJECT_CAT_ELEMS ==
    {"Player", "Obstacle", "DeathMarker", "Loot", "Building", "Decal",
     "Parachute", "ThrowableProjectile", "SyncedParticle"}

\* ObjectPool::new()
PoolNew == [objects |-> [i \in {} |-> [type |-> "", id |-> 0]],
            by_category |-> [cat \in OBJECT_CAT_ELEMS |-> {}]]

\* HashMap::insert and HashMap::remove on the objects map
MapInsert(m, k, v) == [i \in DOMAIN m \cup {k} |-> IF i = k THEN v ELSE m[i]]
MapRemove(m, k) == [i \in DOMAIN m \ {k} |-> m[i]]

pool_clear(p) == [objects |-> PoolNew.objects,
                  by_category |-> [cat \in DOMAIN p.by_category |-> {}]]

pool_add(p, object) ==
    [objects |-> MapInsert(p.objects, object.id, object),
     by_category |-> [p.by_category EXCEPT ![object.type] = @ \cup {object}]]

pool_delete(p, object) ==
    [objects |-> MapRemove(p.objects, object.id),
     by_category |-> [p.by_category EXCEPT ![object.type] = @ \ {object}]]

pool_has(p, object) == object.id \in DOMAIN p.objects

pool_category_has(p, object) == object \in p.by_category[object.type]

pool_get_size(p) == Cardinality(DOMAIN p.objects)

Blank == [op |-> "", value |-> {}, num |-> 0, flag |-> FALSE, bits |-> 0,
          int |-> [neg |-> FALSE, mag |-> {}],
          float |-> [kind |-> "finite", neg |-> FALSE, mag |-> {}],
          config |-> [bits |-> 0, exponent_bits |-> 0, signed |-> FALSE],
          endianness |-> "Little", string |-> <<>>, bytes |-> None,
          start |-> 0, end |-> 0,
          vec |-> [x |-> 0, y |-> 0], range |-> <<0, 0, 0, 0>>]

\* self.write_bitstream(&mut sliced, bits)
CallWriteBitstream(k) == [Blank EXCEPT !.op = "write_bitstream", !.bits = k]
CallWriteAlignToNextByte == [Blank EXCEPT !.op = "write_align_to_next_byte"]
CallReadAlignToNextByte == [Blank EXCEPT !.op = "read_align_to_next_byte"]
\* DecimalSerializer::new_sign(config).decode_ieee(p)
CallDecodePattern(cfg, p) ==
    [Blank EXCEPT !.op = "decode_ieee_of", !.config = cfg, !.value = p]
\* DecimalSerializer::new_sign(config).encode_ieee of the float last returned
CallEncodeDecoded(cfg) == [Blank EXCEPT !.op = "encode_ieee_of_last", !.config = cfg]
CallWriteVector(v, rg, bit_count) ==
    [Blank EXCEPT !.op = "write_vector", !.vec = v, !.range = rg, !.bits = bit_count]
CallReadVector(rg, bit_count) ==
    [Blank EXCEPT !.op = "read_vector", !.range = rg, !.bits = bit_count]
CallWritePosition(v) == [Blank EXCEPT !.op = "write_position", !.vec = v]
CallReadPosition == [Blank EXCEPT !.op = "read_position"]
CallWriteArray(length, bit_count) ==
    [Blank EXCEPT !.op = "write_array", !.num = length, !.bits = bit_count]
CallReadArray(bit_count) == [Blank EXCEPT !.op = "read_array", !.bits = bit_count]
CallReadAndCreateArray(bit_count) ==
    [Blank EXCEPT !.op = "read_and_create_array", !.bits = bit_count]
CallSetIndex(b) == [Blank EXCEPT !.op = "set_index", !.bits = b]
CallSetEndianness(e) == [Blank EXCEPT !.op = "set_endianness", !.endianness = e]
CallReadBits(n) == [Blank EXCEPT !.op = "read_bits", !.bits = n]
CallReadBitsSigned(n) == [Blank EXCEPT !.op = "read_bits_signed", !.bits = n]
CallWriteBitsUs(v, n) == [Blank EXCEPT !.op = "write_bits_us", !.value = v, !.bits = n]
CallWriteBits(v, n) == [Blank EXCEPT !.op = "write_bits", !.num = v, !.bits = n]

CallSlice(a, b) == [Blank EXCEPT !.op = "slice", !.start = a, !.end = b]
CallWriteBoolean(v) == [Blank EXCEPT !.op = "write_boolean", !.flag = v]
CallReadBoolean == [Blank EXCEPT !.op = "read_boolean"]
CallWriteUint8(v) == [Blank EXCEPT !.op = "write_uint8", !.value = v]
CallReadUint8 == [Blank EXCEPT !.op = "read_uint8"]
CallWriteInt4(v) == [Blank EXCEPT !.op = "write_int4", !.value = v]
CallReadInt4 == [Blank EXCEPT !.op = "read_int4"]
CallWriteUint4(v) == [Blank EXCEPT !.op = "write_uint4", !.value = v]
CallReadUint4 == [Blank EXCEPT !.op = "read_uint4"]
CallWriteInt8(v) == [Blank EXCEPT !.op = "write_int8", !.value = v]
CallReadInt8 == [Blank EXCEPT !.op = "read_int8"]
CallWriteInt16(v) == [Blank EXCEPT !.op = "write_int16", !.value = v]
CallReadInt16 == [Blank EXCEPT !.op = "read_int16"]
CallWriteUint16(v) == [Blank EXCEPT !.op = "write_uint16", !.value = v]
CallReadUint16 == [Blank EXCEPT !.op = "read_uint16"]
CallWriteInt32(v) == [Blank EXCEPT !.op = "write_int32", !.value = v]
CallReadInt32 == [Blank EXCEPT !.op = "read_int32"]
CallWriteUint32(v) == [Blank EXCEPT !.op = "write_uint32", !.value = v]
CallReadUint32 == [Blank EXCEPT !.op = "read_uint32"]

CallWriteUtf8String(str, k) ==
    [Blank EXCEPT !.op = "write_utf8_string", !.string = str, !.bytes = k]
CallReadUtf8String(k) == [Blank EXCEPT !.op = "read_utf8_string", !.bytes = k]
CallWriteAsciiString(str, k) ==
    [Blank EXCEPT !.op = "write_ascii_string", !.string = str, !.bytes = k]
CallReadAsciiString(k) == [Blank EXCEPT !.op = "read_ascii_string", !.bytes = k]

CallWriteUint64(v) == [Blank EXCEPT !.op = "write_uint64", !.value = v]
CallReadUint64 == [Blank EXCEPT !.op = "read_uint64"]
CallWriteInt64(x) == [Blank EXCEPT !.op = "write_int64", !.int = x]
CallReadInt64 == [Blank EXCEPT !.op = "read_int64"]
CallWriteUint128(v) == [Blank EXCEPT !.op = "write_uint128", !.value = v]
CallReadUint128 == [Blank EXCEPT !.op = "read_uint128"]
CallWriteInt128(x) == [Blank EXCEPT !.op = "write_int128", !.int = x]
CallReadInt128 == [Blank EXCEPT !.op = "read_int128"]

\* DecimalSerializer::new_sign(config).encode_ieee(v)
CallEncodeIeee(cfg, v) == [Blank EXCEPT !.op = "encode_ieee", !.config = cfg, !.float = v]
\* DecimalSerializer::new_sign(config).decode_ieee of the pattern last returned
CallDecodeIeee(cfg) == [Blank EXCEPT !.op = "decode_ieee", !.config = cfg]

\* the calls a free client chooses among, on a BitStream of FreeLens bytes
FreeLens == {0, 2}
Alphabet ==
    {CallSetIndex(b) : b \in {0, 6, 15, 16}}
    \cup {CallSetEndianness(e) : e \in Endians}
    \cup {CallReadBits(n) : n \in {0, 1, 10, 16, 33}}
    \cup {CallReadBitsSigned(n) : n \in {4, 32}}
    \cup {CallWriteBitsUs(v, n) : v \in {Lit(43981), U32}, n \in {0, 1, 10, 16, 33}}
    \cup {CallWriteBits(v, 4) : v \in {0 - 1}}
    \cup {CallSlice(a, b) : a \in {0, 1}, b \in {0 - 1, 0, 1, 2, 3}}
    \cup {CallWriteBoolean(v) : v \in BOOLEAN}
    \cup {CallReadBoolean, CallReadUint8}
    \cup {CallWriteUint8(Lit(90))}

\* the calls the client may make next
Calls ==
    IF free THEN (IF steps < MaxOps THEN Alphabet ELSE {})
    ELSE (IF prog # <<>> THEN {Head(prog)} ELSE {})

\* the client makes call c with outcome r
Do(c, r) ==
    LET entry == [call |-> c, ok |-> r.ok, ret |-> r.ret, flag |-> r.flag,
                  str |-> r.str, int |-> r.int, float |-> r.float,
                  pre |-> Self, post |-> r.s,
                  other |-> sliced, made |-> r.made, vec |-> r.vec]
    IN  /\ internal' = r.s.internal
        /\ byte_length' = r.s.byte_length
        /\ endianness' = r.s.endianness
        /\ index' = r.s.index
        /\ sliced' = IF r.made # NoStream THEN r.made ELSE sliced
        /\ out' = IF free THEN <<entry>> ELSE Append(out, entry)
        /\ prog' = IF free THEN prog ELSE Tail(prog)
        /\ steps' = steps + 1
        /\ UNCHANGED <<overflow_checks, free, pool>>

SetIndex ==
    \E c \in Calls : c.op = "set_index" /\ Do(c, set_index(Self, c.bits))

SetEndianness ==
    \E c \in Calls : c.op = "set_endianness" /\ Do(c, set_endianness(Self, c.endianness))

ReadBits ==
    \E c \in Calls : c.op = "read_bits" /\ Do(c, read_bits(Self, c.bits))

ReadBitsSigned ==
    \E c \in Calls : c.op = "read_bits_signed" /\ Do(c, read_bits_signed(Self, c.bits))

WriteBitsUs ==
    \E c \in Calls : c.op = "write_bits_us" /\ Do(c, write_bits_us(Self, c.value, c.bits))

WriteBits ==
    \E c \in Calls : c.op = "write_bits" /\ Do(c, write_bits(Self, c.num, c.bits))

Slice ==
    \E c \in Calls : c.op = "slice" /\ Do(c, slice(Self, c.start, c.end))

WriteBoolean ==
    \E c \in Calls : c.op = "write_boolean" /\ Do(c, write_boolean(Self, c.flag))

ReadBoolean ==
    \E c \in Calls : c.op = "read_boolean" /\ Do(c, read_boolean(Self))

WriteUint8 ==
    \E c \in Calls : c.op = "write_uint8" /\ Do(c, write_uint8(Self, c.value))

ReadUint8 ==
    \E c \in Calls : c.op = "read_uint8" /\ Do(c, read_uint8(Self))

WriteInt4 ==
    \E c \in Calls : c.op = "write_int4" /\ Do(c, write_int4(Self, c.value))

ReadInt4 ==
    \E c \in Calls : c.op = "read_int4" /\ Do(c, read_int4(Self))

WriteUint4 ==
    \E c \in Calls : c.op = "write_uint4" /\ Do(c, write_uint4(Self, c.value))

ReadUint4 ==
    \E c \in Calls : c.op = "read_uint4" /\ Do(c, read_uint4(Self))

WriteInt8 ==
    \E c \in Calls : c.op = "write_int8" /\ Do(c, write_int8(Self, c.value))

ReadInt8 ==
    \E c \in Calls : c.op = "read_int8" /\ Do(c, read_int8(Self))

WriteInt16 ==
    \E c \in Calls : c.op = "write_int16" /\ Do(c, write_int16(Self, c.value))

ReadInt16 ==
    \E c \in Calls : c.op = "read_int16" /\ Do(c, read_int16(Self))

WriteUint16 ==
    \E c \in Calls : c.op = "write_uint16" /\ Do(c, write_uint16(Self, c.value))

ReadUint16 ==
    \E c \in Calls : c.op = "read_uint16" /\ Do(c, read_uint16(Self))

WriteInt32 ==
    \E c \in Calls : c.op = "write_int32" /\ Do(c, write_int32(Self, c.value))

ReadInt32 ==
    \E c \in Calls : c.op = "read_int32" /\ Do(c, read_int32(Self))

WriteUint32 ==
    \E c \in Calls : c.op = "write_uint32" /\ Do(c, write_uint32(Self, c.value))

ReadUint32 ==
    \E c \in Calls : c.op = "read_uint32" /\ Do(c, read_uint32(Self))

WriteUtf8String ==
    \E c \in Calls : c.op = "write_utf8_string"
                      /\ Do(c, write_utf8_string(Self, c.string, c.bytes))

ReadUtf8String ==
    \E c \in Calls : c.op = "read_utf8_string" /\ Do(c, read_utf8_string(Self, c.bytes))

WriteAsciiString ==
    \E c \in Calls : c.op = "write_ascii_string"
                      /\ Do(c, write_ascii_string(Self, c.string, c.bytes))

ReadAsciiString ==
    \E c \in Calls : c.op = "read_ascii_string" /\ Do(c, read_ascii_string(Self, c.bytes))

WriteUint64 ==
    \E c \in Calls : c.op = "write_uint64" /\ Do(c, write_uint64(Self, c.value))

ReadUint64 ==
    \E c \in Calls : c.op = "read_uint64" /\ Do(c, read_uint64(Self))

WriteInt64 ==
    \E c \in Calls : c.op = "write_int64" /\ Do(c, write_int64(Self, c.int))

ReadInt64 ==
    \E c \in Calls : c.op = "read_int64" /\ Do(c, read_int64(Self))

WriteUint128 ==
    \E c \in Calls : c.op = "write_uint128" /\ Do(c, write_uint128(Self, c.value))

ReadUint128 ==
    \E c \in Calls : c.op = "read_uint128" /\ Do(c, read_uint128(Self))

WriteInt128 ==
    \E c \in Calls : c.op = "write_int128" /\ Do(c, write_int128(Self, c.int))

ReadInt128 ==
    \E c \in Calls : c.op = "read_int128" /\ Do(c, read_int128(Self))

WriteBitstream ==
    \E c \in Calls :
        c.op = "write_bitstream" /\ Do(c, write_bitstream(Self, sliced, c.bits))

WriteAlignToNextByte ==
    \E c \in Calls :
        c.op = "write_align_to_next_byte" /\ Do(c, write_align_to_next_byte(Self))

ReadAlignToNextByte ==
    \E c \in Calls :
        c.op = "read_align_to_next_byte" /\ Do(c, read_align_to_next_byte(Self))

WriteVector ==
    \E c \in Calls :
        /\ c.op = "write_vector"
        /\ Do(c, write_vector(Self, c.vec, c.range[1], c.range[2],
                              c.range[3], c.range[4], c.bits))

ReadVector ==
    \E c \in Calls :
        /\ c.op = "read_vector"
        /\ Do(c, read_vector(Self, c.range[1], c.range[2],
                             c.range[3], c.range[4], c.bits))

WritePosition ==
    \E c \in Calls : c.op = "write_position" /\ Do(c, write_position(Self, c.vec))

ReadPosition ==
    \E c \in Calls : c.op = "read_position" /\ Do(c, read_position(Self))

WriteArray ==
    \E c \in Calls : c.op = "write_array" /\ Do(c, write_array(Self, c.num, c.bits))

ReadArray ==
    \E c \in Calls : c.op = "read_array" /\ Do(c, read_array(Self, c.bits))

ReadAndCreateArray ==
    \E c \in Calls :
        c.op = "read_and_create_array" /\ Do(c, read_and_create_array(Self, c.bits))

EncodeIeee ==
    \E c \in Calls :
        /\ c.op = "encode_ieee"
        /\ LET d == new_sign(c.config.bits, c.config.exponent_bits, c.config.signed)
           IN  Do(c, IF d.ok THEN Ok(Self, encode_ieee(d, c.float)) ELSE Panic(Self))

DecodeIeee ==
    \E c \in Calls :
        /\ c.op = "decode_ieee"
        /\ out # <<>>
        /\ LET d == new_sign(c.config.bits, c.config.exponent_bits, c.config.signed)
               r == decode_ieee(d, out[Len(out)].ret)
           IN  Do(c, IF d.ok THEN [Ok(Self, {}) EXCEPT !.float = r] ELSE Panic(Self))

\* decode_ieee of a pattern the client supplies
DecodePattern ==
    \E c \in Calls :
        /\ c.op = "decode_ieee_of"
        /\ LET d == new_sign(c.config.bits, c.config.exponent_bits, c.config.signed)
               r == decode_ieee(d, c.value)
           IN  Do(c, IF d.ok THEN [Ok(Self, {}) EXCEPT !.float = r] ELSE Panic(Self))

\* encode_ieee of the float last returned
EncodeDecoded ==
    \E c \in Calls :
        /\ c.op = "encode_ieee_of_last"
        /\ out # <<>>
        /\ LET d == new_sign(c.config.bits, c.config.exponent_bits, c.config.signed)
           IN  Do(c, IF d.ok THEN Ok(Self, encode_ieee(d, out[Len(out)].float))
                     ELSE Panic(Self))

\* BitStream::new(length), and a client about to run script p
InitWith(length, p, f) ==
    /\ internal = new(length).internal
    /\ byte_length = new(length).byte_length
    /\ endianness = new(length).endianness
    /\ index = new(length).index
    /\ sliced = NoStream
    /\ overflow_checks \in BOOLEAN
    /\ prog = p
    /\ free = f
    /\ steps = 0
    /\ out = <<>>
    /\ pool = PoolNew

(***************************************************************************)
(* The general specification: a client that makes any MaxOps calls of the  *)
(* alphabet, each succeeding or panicking (a panic is caught and the       *)
(* stream is used again).                                                  *)
(***************************************************************************)
Init == \E length \in FreeLens : InitWith(length, <<>>, TRUE)

Next ==
    \/ SetIndex \/ SetEndianness
    \/ ReadBits \/ ReadBitsSigned \/ WriteBitsUs \/ WriteBits
    \/ Slice
    \/ WriteBoolean \/ ReadBoolean \/ WriteUint8 \/ ReadUint8

Spec == Init /\ [][Next]_vars

(***************************************************************************)
(* Claims on single calls (Spec).                                          *)
(***************************************************************************)
\* the calls recorded
Made == {out[k] : k \in 1 .. Len(out)}

\* C2: a raw read_bits(n) or write_bits_us(v, n) with n <= 32 and
\* n > bits_left() fails and leaves the index, bits_left() and every byte of
\* the buffer as they were.
C2_FailedRawCall ==
    \A c \in Made :
        (/\ c.call.op \in {"read_bits", "write_bits_us"}
         /\ c.call.bits <= MaxBits
         /\ c.call.bits > bits_left(c.pre))
            => /\ ~c.ok
               /\ c.post.index = c.pre.index
               /\ bits_left(c.post) = bits_left(c.pre)
               /\ c.post.internal = c.pre.internal

\* read_bits(16) has failed with 10 bits left of a buffer holding 0xABCD
C2_Witness ==
    /\ out # <<>>
    /\ out[1].call = CallReadBits(16) /\ ~out[1].ok
    /\ bits_left(out[1].pre) = 10 /\ out[1].pre.internal = <<Lit(205), Lit(171)>>
    /\ bits_left(Self) = 10 /\ internal = <<Lit(205), Lit(171)>>

\* C3: in every reachable state 0 <= index <= byte_length*8, no call changes
\* byte_length (the buffer keeps that many bytes), and bits_left() is
\* byte_length*8 - index.
C3_IndexInBounds ==
    /\ 0 <= index /\ index <= byte_length * 8
    /\ bits_left(Self) = byte_length * 8 - index /\ bits_left(Self) >= 0
    /\ Len(internal) = byte_length
    /\ \A c \in Made : c.pre.byte_length = c.post.byte_length
    /\ out # <<>> => out[Len(out)].post.byte_length = byte_length

\* a call has failed with the cursor at the very end of a 2-byte buffer
C3_Witness ==
    /\ free /\ steps = MaxOps /\ byte_length = 2 /\ index = 16
    /\ out[1].call.op = "read_boolean" /\ ~out[1].ok

\* C6: slice(start, end) with 0 <= start <= end <= byte_length after
\* normalisation succeeds, returns a BitStream over a copy of bytes
\* [start, end) with index 0 and the source's endianness, and leaves the
\* source unchanged.
C6_Slice ==
    \A c \in Made :
        LET L == c.pre.byte_length
            ns == (IF c.call.start < 0 THEN L ELSE 0) + c.call.start
            ne == (IF c.call.end < 0 THEN L ELSE 0) + c.call.end
        IN  (c.call.op = "slice" /\ 0 <= ns /\ ns <= ne /\ ne <= L)
                => /\ c.ok
                   /\ c.post = c.pre
                   /\ sliced = [internal |-> SubSeq(c.pre.internal, ns + 1, ne),
                                byte_length |-> ne - ns,
                                endianness |-> c.pre.endianness, index |-> 0]

(***************************************************************************)
(* Raw round trips: write_bits_us(v, n) at bit s, set_index(s), then       *)
(* read_bits(n) or read_bits_signed(n), under either endianness.           *)
(***************************************************************************)
\* bit patterns written: 0, all ones, 0xABCD, 0xAAAAAAAA, 0x55555555, 0x80000001, 7
Samples ==
    {{}, U32, Lit(43981), {i \in U32 : i % 2 = 1}, {i \in U32 : i % 2 = 0},
     {0, 31}, {0, 1, 2}}

RawStarts == {0, 3, 8}
RawLens == {2, MaxLen}
RawReaders == {"read_bits", "read_bits_signed"}

RawScript(e, s, v, n, rd) ==
    (IF e = "Big" THEN <<CallSetEndianness(e)>> ELSE <<>>)
    \o (IF s # 0 THEN <<CallSetIndex(s)>> ELSE <<>>)
    \o <<CallWriteBitsUs(v, n), CallSetIndex(s),
         IF rd = "read_bits" THEN CallReadBits(n) ELSE CallReadBitsSigned(n)>>

RawPrograms ==
    {RawScript(e, s, v \cap (0 .. (n - 1)), n, rd) :
        e \in Endians, s \in RawStarts, v \in Samples, n \in 1 .. MaxBits,
        rd \in RawReaders}

InitRaw == \E length \in RawLens, p \in RawPrograms : InitWith(length, p, FALSE)

NextRaw == SetEndianness \/ SetIndex \/ WriteBitsUs \/ ReadBits \/ ReadBitsSigned

SpecRaw == InitRaw /\ [][NextRaw]_vars

(***************************************************************************)
(* Claims on the raw round trips (SpecRaw).                                *)
(***************************************************************************)
\* the script has run to its end: the last three calls are the write, the
\* set_index back to the write's offset and the read
RawDone == ~free /\ prog = <<>> /\ Len(out) >= 3
RawW == out[Len(out) - 2]
RawS == out[Len(out) - 1]
RawR == out[Len(out)]

\* the write was made at offset 0 of a fresh BitStream that holds its n bits
RawFreshAtZero ==
    /\ RawW.pre = new(byte_length)
    /\ RawW.call.bits <= byte_length * 8
    /\ RawS.call.bits = 0

\* C1: on a fresh (zero-filled, index 0, Little) BitStream large enough for n
\* bits, write_bits_us(v, n), set_index(0), read_bits(n) returns exactly v, for
\* every n in 1..32 and every sampled v < 2^n.
C1_RawRoundTrip ==
    (RawDone /\ RawFreshAtZero /\ RawR.call.op = "read_bits")
        => /\ RawW.ok /\ RawS.ok /\ RawR.ok
           /\ RawR.ret = RawW.call.value

\* a 32-bit all-ones value came back
C1_Witness ==
    /\ RawDone /\ RawFreshAtZero /\ RawR.call.op = "read_bits"
    /\ RawW.call.bits = 32 /\ RawW.call.value = U32
    /\ RawR.ok /\ RawR.ret = U32

\* the n-bit value x sign-extended to 32 bits (two's complement)
SignExtend(x, n) == IF (n - 1) \in x THEN x \cup (n .. 31) ELSE x

\* C4: read_bits_signed(n), n in 1..31, returns the two's-complement reading of
\* the n bits read: bits n..31 are set only when bit n-1 of the value read is
\* set; 0b1111 over 4 bits reads -1 and 0b0111 reads 7.
C4_SignedRead ==
    (RawDone /\ RawR.call.op = "read_bits_signed" /\ RawR.call.bits <= 31 /\ RawR.ok)
        => /\ RawR.ret = SignExtend(read_bits(RawR.pre, RawR.call.bits).ret,
                                    RawR.call.bits)
           /\ (RawFreshAtZero /\ RawR.call.bits = 4 /\ RawW.call.value = {0, 1, 2, 3})
                => ToI32(RawR.ret) = 0 - 1
           /\ (RawFreshAtZero /\ RawR.call.bits = 4 /\ RawW.call.value = {0, 1, 2})
                => ToI32(RawR.ret) = 7

OtherEndian(e) == IF e = "Big" THEN "Little" ELSE "Big"
LowByte(v) == v \cap (0 .. 7)
HighByte(v) == Shr(v \cap (8 .. 15), 8)

\* C5: a 16-bit v written at index 0 of a fresh 2-byte buffer gives other bytes
\* under Little than under Big whenever v's high and low bytes differ, and
\* set_index(0), read_bits(16) under the endianness of the write returns v.
C5_Endianness ==
    (/\ RawDone /\ RawR.call.op = "read_bits" /\ RawW.call.bits = 16
     /\ byte_length = 2 /\ RawW.pre.index = 0 /\ RawS.call.bits = 0
     /\ RawW.pre.internal = new(2).internal)
        => /\ RawW.ok /\ RawS.ok /\ RawR.ok
           /\ RawR.ret = RawW.call.value
           /\ RawR.pre.endianness = RawW.pre.endianness
           /\ LowByte(RawW.call.value) # HighByte(RawW.call.value)
                => RawW.post.internal #
                   write_bits_us([RawW.pre EXCEPT
                                     !.endianness = OtherEndian(RawW.pre.endianness)],
                                 RawW.call.value, 16).s.internal

\* 0xABCD written and read back under Big endianness: bytes AB CD
C5_Witness ==
    /\ RawDone /\ RawR.call.op = "read_bits" /\ RawW.call.bits = 16
    /\ byte_length = 2 /\ RawW.pre.index = 0 /\ endianness = "Big"
    /\ RawW.call.value = Lit(43981)
    /\ internal = <<Lit(171), Lit(205)>>
    /\ RawR.ok /\ RawR.ret = Lit(43981)

(***************************************************************************)
(* String round trips: write_utf8_string / write_ascii_string at bit i,    *)
(* set_index(i), then the matching read, null-terminated or fixed-length.  *)
(***************************************************************************)
\* byte length of the string buffer
StringBufLen == 12

\* "hello", "hi", "", U+E9, "h" U+20AC, "a" NUL "bc", U+1F600
Strings ==
    {<<104, 101, 108, 108, 111>>, <<104, 105>>, <<>>, <<233>>, <<104, 8364>>,
     <<97, 0, 98, 99>>, <<128512>>}

StringStarts == {0, 3, 8}
StringCounts == {None, 1, 3, 10}
StringCodecs == {"utf8", "ascii"}

StringScript(e, i, str, k, codec) ==
    (IF e = "Big" THEN <<CallSetEndianness(e)>> ELSE <<>>)
    \o (IF i # 0 THEN <<CallSetIndex(i)>> ELSE <<>>)
    \o (IF codec = "utf8"
        THEN <<CallWriteUtf8String(str, k), CallSetIndex(i), CallReadUtf8String(k)>>
        ELSE <<CallWriteAsciiString(str, k), CallSetIndex(i), CallReadAsciiString(k)>>)

StringPrograms ==
    {StringScript(e, i, str, k, codec) :
        e \in Endians, i \in StringStarts, str \in Strings, k \in StringCounts,
        codec \in StringCodecs}

InitString == \E p \in StringPrograms : InitWith(StringBufLen, p, FALSE)

NextString ==
    \/ SetEndianness \/ SetIndex
    \/ WriteUtf8String \/ ReadUtf8String \/ WriteAsciiString \/ ReadAsciiString

SpecString == InitString /\ [][NextString]_vars

(***************************************************************************)
(* Claims on the string round trips (SpecString).                          *)
(***************************************************************************)
\* the script has run to its end: the write, the set_index and the read
StrDone == ~free /\ prog = <<>> /\ Len(out) >= 3
StrW == out[Len(out) - 2]
StrS == out[Len(out) - 1]
StrR == out[Len(out)]

RECURSIVE BytesAt(_, _)
\* the next k bytes of stream s, as read_uint8 returns them
BytesAt(s, k) ==
    IF k = 0 THEN <<>>
    ELSE LET r == read_uint8(s) IN <<r.ret>> \o BytesAt(r.s, k - 1)

\* the bytes of b that precede its first zero byte
BeforeZero(b) ==
    LET zeros == {j \in 1 .. Len(b) : b[j] = {}}
    IN  IF zeros = {} THEN b
        ELSE SubSeq(b, 1, (CHOOSE j \in zeros : \A z \in zeros : j <= z) - 1)

AsNumbers(b) == [j \in 1 .. Len(b) |-> BitsToNat(b[j])]

\* C7: a string s without NUL and with every char below U+10000, whose bytes
\* plus a terminator fit in the rest of the buffer: write_utf8_string(s, None)
\* from index i writes len(bytes)+1 bytes, the last a 0; after set_index(i),
\* read_utf8_string(None) returns s and leaves the index where the write left it.
C7_NullTerminatedRoundTrip ==
    LET str == StrW.call.string
        bytes == string_to_byte_array(str)
    IN  (/\ StrDone
         /\ StrW.call.op = "write_utf8_string" /\ StrW.call.bytes = None
         /\ StrR.call.op = "read_utf8_string" /\ StrR.call.bytes = None
         /\ \A j \in 1 .. Len(str) : str[j] # 0 /\ str[j] < 65536
         /\ 8 * (Len(bytes) + 1) <= bits_left(StrW.pre))
            => /\ StrW.ok /\ StrS.ok /\ StrR.ok
               /\ StrW.post.index = StrW.pre.index + 8 * (Len(bytes) + 1)
               /\ BytesAt(StrR.pre, Len(bytes) + 1) = bytes \o <<{}>>
               /\ StrR.str = str
               /\ StrR.post.index = StrW.post.index

\* C8: with a byte count k > 0 that fits, write_utf8_string /
\* write_ascii_string(s, Some(k)) advances the index by 8*k bits and writes the
\* first min(k, len) bytes of s then zero bytes; the matching read(Some(k))
\* advances the index by 8*k bits and returns the bytes before the first zero.
C8_FixedLength ==
    LET str == StrW.call.string
        k == StrW.call.bytes
        bytes == IF StrW.call.op = "write_utf8_string" THEN string_to_byte_array(str)
                 ELSE [j \in 1 .. Len(str) |-> AsU8(Lit(str[j]))]
        written == [j \in 1 .. k |-> IF j <= Len(bytes) THEN bytes[j] ELSE {}]
    IN  (/\ StrDone
         /\ StrW.call.op \in {"write_utf8_string", "write_ascii_string"}
         /\ StrW.call.op = "write_ascii_string" => is_ascii(str)
         /\ k # None /\ k > 0 /\ StrR.call.bytes = k
         /\ 8 * k <= bits_left(StrW.pre))
            => /\ StrW.ok /\ StrS.ok /\ StrR.ok
               /\ StrW.post.index = StrW.pre.index + 8 * k
               /\ BytesAt(StrR.pre, k) = written
               /\ StrR.post.index = StrR.pre.index + 8 * k
               /\ Utf8Decode(AsNumbers(BeforeZero(written))).ok
               /\ StrR.str = Utf8Decode(AsNumbers(BeforeZero(written))).str

(***************************************************************************)
(* Wide integers: write_(u)int64 / write_(u)int128 at bit s, set_index(s), *)
(* then the matching read.                                                 *)
(***************************************************************************)
\* byte length of the larger wide-integer buffer
WideBufLen == 17

\* 0, 2^64 - 1, 2^32 - 1, 2^32, 2^63, 0x0123456789ABCDEF
Samples64 ==
    {{}, U64, U32, {32}, {63},
     {0, 1, 2, 3, 5, 6, 7, 8, 10, 11, 14, 15, 16, 19, 21, 23, 24, 27, 28, 31,
      32, 33, 34, 37, 38, 40, 42, 46, 48, 49, 53, 56}}

\* 0, 2^128 - 1, 2^127, 2^96 + 3 * 2^64 + 5 * 2^32 + 7, 0xABCD * 2^64 + 2^63 + 2^31 + 1
Samples128 ==
    {{}, U128, {127}, {0, 1, 2, 32, 34, 64, 65, 96},
     {i + 64 : i \in Lit(43981)} \cup {0, 31, 63}}

\* 0, 5, -1, -5, -(2^33 + 2^40), the least and the greatest value of the width W
SamplesSigned(W) ==
    {[neg |-> FALSE, mag |-> {}], [neg |-> FALSE, mag |-> {0, 2}],
     [neg |-> TRUE, mag |-> {0}], [neg |-> TRUE, mag |-> {0, 2}],
     [neg |-> TRUE, mag |-> {33, 40}],
     [neg |-> TRUE, mag |-> {Cardinality(W) - 1}],
     [neg |-> FALSE, mag |-> W \ {Cardinality(W) - 1}]}

WideStarts == {0, 5}
WideLens == {10, WideBufLen}

WidePairs ==
    {<<CallWriteUint64(v), CallReadUint64>> : v \in Samples64}
    \cup {<<CallWriteInt64(x), CallReadInt64>> : x \in SamplesSigned(U64)}
    \cup {<<CallWriteUint128(v), CallReadUint128>> : v \in Samples128}
    \cup {<<CallWriteInt128(x), CallReadInt128>> : x \in SamplesSigned(U128)}

WideScript(e, s, pair) ==
    (IF e = "Big" THEN <<CallSetEndianness(e)>> ELSE <<>>)
    \o (IF s # 0 THEN <<CallSetIndex(s)>> ELSE <<>>)
    \o <<pair[1], CallSetIndex(s), pair[2]>>

WidePrograms ==
    {WideScript(e, s, pair) : e \in Endians, s \in WideStarts, pair \in WidePairs}

InitWide == \E length \in WideLens, p \in WidePrograms : InitWith(length, p, FALSE)

NextWide ==
    \/ SetEndianness \/ SetIndex
    \/ WriteUint64 \/ ReadUint64 \/ WriteInt64 \/ ReadInt64
    \/ WriteUint128 \/ ReadUint128 \/ WriteInt128 \/ ReadInt128

SpecWide == InitWide /\ [][NextWide]_vars

(***************************************************************************)
(* Claims on the wide integers (SpecWide).                                 *)
(***************************************************************************)
WideDone == ~free /\ prog = <<>> /\ Len(out) >= 3
WideW == out[Len(out) - 2]
WideS == out[Len(out) - 1]
WideR == out[Len(out)]

\* the width in bits of the integer call c writes
WideBits(c) == IF c.op \in {"write_uint64", "write_int64"} THEN 64 ELSE 128

RECURSIVE ChunksAt(_, _)
\* what the next k raw 32-bit reads of stream s return
ChunksAt(s, k) ==
    IF k = 0 THEN <<>>
    ELSE LET r == read_bits(s, 32) IN <<r.ret>> \o ChunksAt(r.s, k - 1)

\* C9: on a Little-endian cursor with room for it, write_uint64 / write_uint128
\* (and the signed variants) write the value as two / four raw 32-bit chunks,
\* least significant first; the matching read from the same index returns the
\* value written, and write and read each advance the index by 64 / 128 bits.
C9_WideRoundTrip ==
    LET c == WideW.call
        w == WideBits(c)
        W == 0 .. (w - 1)
        signed == c.op \in {"write_int64", "write_int128"}
        bits == IF signed THEN SignedAsUnsigned(W, c.int) ELSE c.value
    IN  (/\ WideDone
         /\ WideW.pre.endianness = "Little"
         /\ w <= bits_left(WideW.pre))
            => /\ WideW.ok /\ WideS.ok /\ WideR.ok
               /\ WideW.post.index = WideW.pre.index + w
               /\ WideR.post.index = WideR.pre.index + w
               /\ ChunksAt(WideR.pre, w \div 32) =
                    [k \in 1 .. (w \div 32) |-> And(Shr(bits, 32 * (k - 1)), U32)]
               /\ IF signed THEN WideR.int = c.int ELSE WideR.ret = c.value

\* the least i128, written at bit 5 of a Little-endian cursor, came back
C9_Witness ==
    /\ WideDone
    /\ WideW.pre.endianness = "Little" /\ WideW.pre.index = 5
    /\ WideW.call.op = "write_int128"
    /\ WideW.call.int = [neg |-> TRUE, mag |-> {127}]
    /\ WideR.ok /\ WideR.int = [neg |-> TRUE, mag |-> {127}]
    /\ index = 133

(***************************************************************************)
(* The float codec on its own: encode_ieee(v) under a configuration, then  *)
(* decode_ieee of the pattern it returned.                                 *)
(***************************************************************************)
\* 0.1 = 0x3FB999999999999A and 3.14159 = 0x400921F9F01B866E
Tenth ==
    FromBits(11, 52, {1, 3, 4, 7, 8, 11, 12, 15, 16, 19, 20, 23, 24, 27, 28, 31,
                      32, 35, 36, 39, 40, 43, 44, 47, 48, 51, 52, 53, 55, 56, 57,
                      58, 59, 60, 61})
Pi5 ==
    FromBits(11, 52, {1, 2, 3, 5, 6, 9, 10, 15, 16, 17, 19, 20, 28, 29, 30, 31,
                      32, 35, 36, 37, 38, 39, 40, 45, 48, 51, 62})

\* 0.0, -0.0, 1.5, -0.5, 0.1, 3.14159, Infinity, NaN
StandardValues ==
    {Zero, Finite(TRUE, {}), Finite(FALSE, {0, 0 - 1}), Finite(TRUE, {0 - 1}),
     Tenth, Pi5, Infinite(FALSE), NAN}

\* 3.2 = 0x400999999999999A
ThreePointTwo ==
    FromBits(11, 52, {1, 3, 4, 7, 8, 11, 12, 15, 16, 19, 20, 23, 24, 27, 28, 31,
                      32, 35, 36, 39, 40, 43, 44, 47, 48, 51, 62})

\* -Infinity, 5.0, 0.75, -3.0, 2^-130, 2^130, 2^-1074;
\* 2^-31 = 4.656612873077393e-10, 2^-6, 3.0, 0.5, 3.2, -3.2, -5.0
FloatSamples ==
    StandardValues
    \cup {Infinite(TRUE), Finite(FALSE, {2, 0}), Finite(FALSE, {0 - 1, 0 - 2}),
          Finite(TRUE, {1, 0}), Finite(FALSE, {0 - 130}), Finite(FALSE, {130}),
          Finite(FALSE, {0 - 1074})}
    \cup {Finite(FALSE, {0 - 31}), Finite(FALSE, {0 - 6}), Finite(FALSE, {1, 0}),
          Finite(FALSE, {0 - 1}), ThreePointTwo, MulSign(TRUE, ThreePointTwo),
          Finite(TRUE, {2, 0})}

Config(bits, exponent_bits, signed) ==
    [bits |-> bits, exponent_bits |-> exponent_bits, signed |-> signed]

\* the configurations of the Stream trait's float methods, the 8-bit float with
\* 6 exponent bits and the widest one, and those new_sign rejects
Configs ==
    {Config(w[1], w[2], s) : w \in {<<8, 3>>, <<16, 5>>, <<32, 8>>, <<64, 11>>},
                             s \in BOOLEAN}
    \cup {Config(8, 8, TRUE)}
    \cup {Config(w[1], w[2], s) : w \in {<<8, 6>>, <<128, 8>>, <<8, 9>>, <<129, 8>>,
                                         <<255, 11>>, <<8, 8>>},
                                  s \in BOOLEAN}

\* the finite samples above zero
PositiveSamples == {v \in FloatSamples : v.kind = "finite" /\ ~v.neg /\ v.mag # {}}

\* encode_ieee(v) then decode_ieee, or encode_ieee(x) then encode_ieee(-x)
FloatPrograms ==
    {<<CallEncodeIeee(cfg, v), CallDecodeIeee(cfg)>> : cfg \in Configs, v \in FloatSamples}
    \cup {<<CallEncodeIeee(cfg, x), CallEncodeIeee(cfg, MulSign(TRUE, x))>> :
              cfg \in Configs, x \in PositiveSamples}

InitFloat == \E p \in FloatPrograms : InitWith(0, p, FALSE)

NextFloat == EncodeIeee \/ DecodeIeee

SpecFloat == InitFloat /\ [][NextFloat]_vars

(***************************************************************************)
(* Claims on the float codec (SpecFloat).                                  *)
(***************************************************************************)
FloatDone ==
    /\ ~free /\ prog = <<>> /\ Len(out) = 2
    /\ out[1].call.op = "encode_ieee" /\ out[2].call.op = "decode_ieee"
FloatE == out[1]
FloatD == out[2]

\* the standard layouts: new(32, 8) and new(64, 11)
StandardDone ==
    /\ FloatDone
    /\ FloatE.call.config \in {Config(32, 8, TRUE), Config(64, 11, TRUE)}
    /\ FloatE.call.float \in StandardValues

\* v converted to the native float of the width and back to f64
Native(bits, v) == IF bits = 32 THEN F32AsF64(F64AsF32(v)) ELSE v

\* the same float: bit for bit, or NaN both
SameFloat(a, b) == (is_nan(a) /\ is_nan(b)) \/ a = b

\* C10 as stated: for each of 0.0, -0.0, 1.5, -0.5, 0.1, 3.14159, Infinity and
\* NaN, encode_ieee then decode_ieee under new(32, 8) yields the value converted
\* to a native 32-bit float and back, and under new(64, 11) the value itself
\* (the sign of zero preserved, NaN staying NaN).
C10_StandardRoundTrip ==
    StandardDone
        => /\ FloatE.ok /\ FloatD.ok
           /\ SameFloat(FloatD.float, Native(FloatE.call.config.bits, FloatE.call.float))

\* C10, amended: the same for every listed value but -0.0, where NaN is encoded
\* as exponent_mask | 1 and comes back a NaN; -0.0 is encoded as the pattern 0
\* and comes back as +0.0.
C10_StandardRoundTripButNegZero ==
    StandardDone
        => /\ FloatE.ok /\ FloatD.ok
           /\ IF FloatE.call.float = Finite(TRUE, {})
              THEN FloatE.ret = {} /\ FloatD.float = Zero
              ELSE SameFloat(FloatD.float,
                             Native(FloatE.call.config.bits, FloatE.call.float))
           /\ is_nan(FloatE.call.float)
                => FloatE.ret = Or(new_sign(FloatE.call.config.bits,
                                            FloatE.call.config.exponent_bits,
                                            TRUE).exponent_mask, {0})

\* 0.1 under new(32, 8) came back as the nearest f32, which is not 0.1
C10_Witness ==
    /\ StandardDone
    /\ FloatE.call.config.bits = 32
    /\ FloatE.call.float = Tenth
    /\ FloatE.ret = {0, 2, 3, 6, 7, 10, 11, 14, 15, 18, 19, 22, 23, 24, 26, 27, 28, 29}
    /\ FloatD.ok
    /\ FloatD.float = Native(32, Tenth)
    /\ FloatD.float # Tenth

\* 5.0 and 2^-31 under the signed 8-bit codec with e exponent bits
EdgeDone(e, v) ==
    /\ FloatDone
    /\ FloatE.call.config = Config(8, e, TRUE)
    /\ FloatE.call.float = v

\* C11 as stated: under new(8, 3), decode_ieee(encode_ieee(5.0)) is not 5.0, and
\* 2^-31 is encoded and decoded without error and comes back exactly.
C11_QuarterEdge ==
    /\ EdgeDone(3, Finite(FALSE, {2, 0}))
           => FloatE.ok /\ FloatD.ok /\ FloatD.float # Finite(FALSE, {2, 0})
    /\ EdgeDone(3, Finite(FALSE, {0 - 31}))
           => FloatE.ok /\ FloatD.ok /\ FloatD.float = Finite(FALSE, {0 - 31})

\* C11, amended: under new(8, 3), 5.0 is encoded as 0x54 and comes back as 5.0
\* exactly; the least positive subnormal is min_value = 2^-6 (pattern 1), and
\* 2^-31 lies below it, is encoded as 0 and comes back as 0.0, without error.
\* It is under new(8, 6) that 5.0 comes back as 4.0 and 2^-31 is the least
\* subnormal and comes back exactly.
C11_QuarterEdgeAmended ==
    /\ EdgeDone(3, Finite(FALSE, {2, 0}))
           => /\ FloatE.ok /\ FloatD.ok
              /\ FloatE.ret = {2, 4, 6}
              /\ FloatD.float = Finite(FALSE, {2, 0})
    /\ EdgeDone(3, Finite(FALSE, {0 - 31}))
           => FloatE.ok /\ FloatD.ok /\ FloatE.ret = {} /\ FloatD.float = Zero
    /\ EdgeDone(3, Finite(FALSE, {0 - 6}))
           => /\ FloatE.ok /\ FloatD.ok
              /\ new_sign(8, 3, TRUE).min_value = Finite(FALSE, {0 - 6})
              /\ FloatE.ret = {0}
              /\ FloatD.float = Finite(FALSE, {0 - 6})
    /\ EdgeDone(6, Finite(FALSE, {2, 0}))
           => FloatE.ok /\ FloatD.ok /\ FloatD.float = Finite(FALSE, {2})
    /\ EdgeDone(6, Finite(FALSE, {0 - 31}))
           => /\ FloatE.ok /\ FloatD.ok
              /\ new_sign(8, 6, TRUE).min_value = Finite(FALSE, {0 - 31})
              /\ FloatE.ret = {0}
              /\ FloatD.float = Finite(FALSE, {0 - 31})

\* 5.0 went through new(8, 3) and came back 5.0
C11_Witness ==
    /\ EdgeDone(3, Finite(FALSE, {2, 0}))
    /\ FloatE.ok /\ FloatD.ok
    /\ FloatE.ret = {2, 4, 6}
    /\ FloatD.float = Finite(FALSE, {2, 0})

\* encode_ieee(x) then encode_ieee(-x) under one configuration
SignPairDone ==
    /\ ~free /\ prog = <<>> /\ Len(out) = 2
    /\ out[1].call.op = "encode_ieee" /\ out[2].call.op = "encode_ieee"

\* C12: under every unsigned configuration and for every finite x > 0,
\* encode_ieee(-x) returns the bit pattern encode_ieee(x) returns.
C12_UnsignedIgnoresSign ==
    (/\ SignPairDone
     /\ ~out[1].call.config.signed
     /\ new_sign(out[1].call.config.bits, out[1].call.config.exponent_bits, FALSE).ok)
        => /\ out[1].ok /\ out[2].ok
           /\ out[2].call.float = MulSign(TRUE, out[1].call.float)
           /\ out[2].ret = out[1].ret

(***************************************************************************)
(* Further claims on single calls (Spec).                                  *)
(***************************************************************************)
\* C13: set_index(b) succeeds and sets index = b exactly when
\* b < byte_length*8; for every other b (the end of the buffer, any b on an
\* empty buffer) it fails and leaves the index as it was; either way the bytes
\* and the endianness are unchanged.
C13_SetIndex ==
    \A c \in Made :
        c.call.op = "set_index"
            => /\ c.call.bits < c.pre.byte_length * 8
                   => c.ok /\ c.post.index = c.call.bits
               /\ c.call.bits >= c.pre.byte_length * 8
                   => ~c.ok /\ c.post.index = c.pre.index
               /\ c.post.internal = c.pre.internal
               /\ c.post.endianness = c.pre.endianness
               /\ c.post.byte_length = c.pre.byte_length

\* set_index(16) has failed on a 2-byte buffer whose index stays 6
C13_Witness ==
    /\ free /\ out # <<>>
    /\ out[1].call = CallSetIndex(16) /\ ~out[1].ok
    /\ out[1].pre.byte_length = 2 /\ out[1].pre.index = 6
    /\ index = 6

(***************************************************************************)
(* Construction of a DecimalSerializer (SpecFloat).                        *)
(***************************************************************************)
FloatCalls == {c \in Made : c.call.op \in {"encode_ieee", "decode_ieee"}}

\* C14: DecimalSerializer::new and new_unsigned fail whenever bits > 128 or
\* exponent_bits >= bits, so every serializer that is produced (and then
\* used) has exponent_bits < bits <= 128.
C14_Construction ==
    \A c \in FloatCalls :
        LET cfg == c.call.config
        IN  /\ (cfg.bits > 128 \/ cfg.exponent_bits >= cfg.bits) => ~c.ok
            /\ c.ok => cfg.exponent_bits < cfg.bits /\ cfg.bits <= 128

\* construction has failed for exponent_bits = bits
C14_Witness ==
    /\ Len(out) = 1
    /\ out[1].call.config = Config(8, 8, TRUE)
    /\ ~out[1].ok

(***************************************************************************)
(* The bytes the string writers emit (SpecString).                         *)
(***************************************************************************)
\* the UTF-8 form of one code point, as numbers: 1 byte up to U+7F, 2 up to
\* U+7FF, 3 up to U+FFFF, 4 above
Utf8Char(cp) ==
    IF cp <= 127 THEN <<cp>>
    ELSE IF cp <= 2047 THEN <<192 + (cp \div 64), 128 + (cp % 64)>>
    ELSE IF cp <= 65535
    THEN <<224 + (cp \div 4096), 128 + ((cp \div 64) % 64), 128 + (cp % 64)>>
    ELSE <<240 + (cp \div 262144), 128 + ((cp \div 4096) % 64),
           128 + ((cp \div 64) % 64), 128 + (cp % 64)>>

RECURSIVE Utf8String(_)
Utf8String(string) ==
    IF string = <<>> THEN <<>>
    ELSE Utf8Char(Head(string)) \o Utf8String(Tail(string))

\* C15: write_utf8_string emits the standard UTF-8 bytes of the string: one
\* byte for U+0..U+7F, two for U+80..U+7FF, three for U+800..U+FFFF and four
\* above U+FFFF, lead byte tagged by length and continuation bytes 10xxxxxx
\* (Little-endian cursor, null-terminated form, room for the bytes).
C15_StandardUtf8 ==
    \A c \in Made :
        LET std == Utf8String(c.call.string) \o <<0>>
        IN  (/\ c.call.op = "write_utf8_string" /\ c.call.bytes = None
             /\ c.pre.endianness = "Little"
             /\ 8 * Len(std) <= bits_left(c.pre))
                => /\ c.ok
                   /\ c.post.index = c.pre.index + 8 * Len(std)
                   /\ AsNumbers(BytesAt([c.post EXCEPT !.index = c.pre.index],
                                        Len(std))) = std

\* the same statement for strings whose chars are all below U+10000
Utf8BelowAstral ==
    \A c \in Made :
        LET std == Utf8String(c.call.string) \o <<0>>
        IN  (/\ c.call.op = "write_utf8_string" /\ c.call.bytes = None
             /\ c.pre.endianness = "Little"
             /\ \A j \in 1 .. Len(c.call.string) : c.call.string[j] < 65536
             /\ 8 * Len(std) <= bits_left(c.pre))
                => /\ c.ok
                   /\ c.post.index = c.pre.index + 8 * Len(std)
                   /\ AsNumbers(BytesAt([c.post EXCEPT !.index = c.pre.index],
                                        Len(std))) = std

\* C16: write_ascii_string with a string that is not all ASCII fails before
\* anything is written: the buffer and the index are as before the call, in
\* the fixed-length and in the null-terminated form.
C16_AsciiRejected ==
    \A c \in Made :
        (c.call.op = "write_ascii_string" /\ ~is_ascii(c.call.string))
            => /\ ~c.ok
               /\ c.post.internal = c.pre.internal
               /\ c.post.index = c.pre.index

\* write_ascii_string("h" U+20AC, Some(3)) has failed at index 3
C16_Witness ==
    /\ out # <<>>
    /\ out[Len(out)].call = CallWriteAsciiString(<<104, 8364>>, 3)
    /\ out[Len(out)].pre.index = 3
    /\ ~out[Len(out)].ok
    /\ index = 3

(***************************************************************************)
(* Copying between two streams: a source stream that holds a byte pattern  *)
(* and stands at bit s, and a destination that is filled, moved to bit d   *)
(* and then told to write_bitstream(source, k).                            *)
(***************************************************************************)
\* byte length of the two buffers
CopyBufLen == 6

CopyPatterns ==
    {[i \in 1 .. CopyBufLen |-> AsU8(Lit((165 + 37 * i) % 256))],
     [i \in 1 .. CopyBufLen |-> U8]}

CopySources ==
    {[internal |-> b, byte_length |-> CopyBufLen, endianness |-> e, index |-> s] :
        b \in CopyPatterns, e \in Endians, s \in {0, 3}}

CopyScript(fill, e, d, k) ==
    (IF fill THEN <<CallWriteBitsUs(U32, 32), CallWriteBitsUs(Lit(43981), 16)>>
     ELSE <<>>)
    \o (IF e = "Big" THEN <<CallSetEndianness(e)>> ELSE <<>>)
    \o <<CallSetIndex(d), CallWriteBitstream(k)>>

CopyPrograms ==
    {CopyScript(fill, e, d, k) :
        fill \in BOOLEAN, e \in Endians, d \in {0, 5},
        k \in {None, 0, 1, 13, 32, 37, 45}}

InitCopy ==
    /\ internal = new(CopyBufLen).internal
    /\ byte_length = new(CopyBufLen).byte_length
    /\ endianness = new(CopyBufLen).endianness
    /\ index = new(CopyBufLen).index
    /\ sliced \in CopySources
    /\ overflow_checks \in BOOLEAN
    /\ prog \in CopyPrograms
    /\ free = FALSE
    /\ steps = 0
    /\ out = <<>>
    /\ pool = PoolNew

NextCopy == SetEndianness \/ SetIndex \/ WriteBitsUs \/ WriteBitstream

SpecCopy == InitCopy /\ [][NextCopy]_vars

\* bit p of a buffer, counted as a Little-endian cursor counts: byte p / 8,
\* from its low bit up
BitAt(s, p) == (p % 8) \in s.internal[(p \div 8) + 1]

\* C17: dest.write_bitstream(src, Some(k)) with both cursors Little-endian
\* and k <= bits_left() of each copies the next k bits of src verbatim:
\* dest bits [d, d+k) equal src bits [s, s+k), both indices advance by k, the
\* src buffer is unchanged and no dest bit outside [d, d+k) changes.
C17_CopyVerbatim ==
    \A c \in Made :
        LET k == c.call.bits
            d == c.pre.index
            s == c.other.index
        IN  (/\ c.call.op = "write_bitstream" /\ k # None
             /\ c.pre.endianness = "Little" /\ c.other.endianness = "Little"
             /\ k <= bits_left(c.pre) /\ k <= bits_left(c.other))
                => /\ c.ok
                   /\ c.post.index = d + k
                   /\ c.made.index = s + k
                   /\ c.made.internal = c.other.internal
                   /\ \A j \in 0 .. (k - 1) :
                          BitAt(c.post, d + j) <=> BitAt(c.other, s + j)
                   /\ \A p \in (0 .. (8 * c.pre.byte_length - 1)) \ (d .. (d + k - 1)) :
                          BitAt(c.post, p) <=> BitAt(c.pre, p)

\* 37 bits, more than one chunk, have been copied from bit 3 of the patterned
\* source to bit 5 of a filled destination
C17_Witness ==
    /\ out # <<>>
    /\ out[Len(out)].call = CallWriteBitstream(37)
    /\ out[Len(out)].ok
    /\ out[Len(out)].pre.endianness = "Little"
    /\ out[Len(out)].other.endianness = "Little"
    /\ out[Len(out)].pre.index = 5 /\ out[Len(out)].other.index = 3
    /\ out[Len(out)].pre.internal[1] = U8
    /\ out[Len(out)].other.internal[1] # U8
    /\ index = 42 /\ sliced.index = 40

(***************************************************************************)
(* Byte alignment: a buffer that is filled or not, a cursor moved to bit i *)
(* (or left where the fill ended), then one of the two align calls.        *)
(***************************************************************************)
AlignScript(fill, e, i, op) ==
    (IF fill THEN <<CallWriteBitsUs(U32, 16)>> ELSE <<>>)
    \o (IF e = "Big" THEN <<CallSetEndianness(e)>> ELSE <<>>)
    \o (IF i # None THEN <<CallSetIndex(i)>> ELSE <<>>)
    \o <<op>>

AlignPrograms ==
    {AlignScript(fill, e, i, op) :
        fill \in BOOLEAN, e \in Endians, i \in {None, 0, 3, 8, 13, 15},
        op \in {CallWriteAlignToNextByte, CallReadAlignToNextByte}}

InitAlign == \E l \in FreeLens, p \in AlignPrograms : InitWith(l, p, FALSE)

NextAlign ==
    \/ SetEndianness \/ SetIndex \/ WriteBitsUs
    \/ WriteAlignToNextByte \/ ReadAlignToNextByte

SpecAlign == InitAlign /\ [][NextAlign]_vars

\* bit p of a stream as its cursor counts: byte p / 8, from the low bit up on
\* a Little-endian cursor and from the high bit down on a Big-endian one
StreamBit(s, p) ==
    (IF s.endianness = "Big" THEN 7 - (p % 8) ELSE p % 8) \in s.internal[(p \div 8) + 1]

AllBits(s) == 0 .. (8 * s.byte_length - 1)

\* what the claim on the align calls says of one recorded call c
Aligned(c) ==
    LET skipped == c.pre.index .. (c.post.index - 1) IN
    /\ c.ok
    /\ c.post.index % 8 = 0
    /\ c.post.index - c.pre.index \in 0 .. 7
    /\ c.pre.index % 8 = 0 => c.post.index = c.pre.index
    /\ c.call.op = "write_align_to_next_byte"
          => /\ \A p \in skipped : ~StreamBit(c.post, p)
             /\ \A p \in AllBits(c.pre) \ skipped :
                    StreamBit(c.post, p) <=> StreamBit(c.pre, p)
    /\ c.call.op = "read_align_to_next_byte"
          => c.post.internal = c.pre.internal

AlignCalls ==
    {c \in Made : c.call.op \in {"write_align_to_next_byte", "read_align_to_next_byte"}}

AlignLittle == \A c \in AlignCalls : c.pre.endianness = "Little" => Aligned(c)

\* the same statement on Big-endian cursors of a build without overflow checks
AlignBigUnchecked ==
    \A c \in AlignCalls :
        (c.pre.endianness = "Big" /\ ~overflow_checks) => Aligned(c)

(***************************************************************************)
(* The width of a raw call: a cursor moved to bit s, then read_bits(n) and *)
(* write_bits_us(v, m) for widths in and out of range.                     *)
(***************************************************************************)
Widths == {0, 1, 8, MaxBits, MaxBits + 1}

WidthScript(e, s, n, v, m) ==
    (IF e = "Big" THEN <<CallSetEndianness(e)>> ELSE <<>>)
    \o <<CallSetIndex(s), CallReadBits(n), CallWriteBitsUs(v, m)>>

WidthPrograms ==
    {WidthScript(e, s, n, v, m) :
        e \in Endians, s \in {0, 3}, n \in Widths, v \in {U32}, m \in Widths}

InitWidth == \E l \in {2, CopyBufLen}, p \in WidthPrograms : InitWith(l, p, FALSE)

NextWidth == SetEndianness \/ SetIndex \/ ReadBits \/ WriteBitsUs

SpecWidth == InitWidth /\ [][NextWidth]_vars

RawCalls == {c \in Made : c.call.op \in {"read_bits", "write_bits_us"}}

BigDone ==
    /\ RawDone /\ RawR.call.op = "read_bits"
    /\ RawW.call.op = "write_bits_us" /\ RawW.pre.endianness = "Big"
    /\ 1 <= RawW.call.bits /\ RawW.call.bits <= 32
    /\ RawW.call.bits <= bits_left(RawW.pre)

\* C20: on a Big-endian cursor write_bits_us(v, n) succeeds at any starting
\* index s whenever 1 <= n <= 32 and n <= bits_left(), and set_index(s)
\* followed by read_bits(n) returns v (so a second write_uint8, made at
\* index 8, succeeds and reads back).
C20_BigWriteAnywhere ==
    BigDone => /\ RawW.ok /\ RawS.ok /\ RawR.ok
               /\ RawR.ret = RawW.call.value

\* the same statement for writes that start at index 0
BigWriteAtZero ==
    (BigDone /\ RawW.pre.index = 0)
        => /\ RawW.ok /\ RawS.ok /\ RawR.ok
           /\ RawR.ret = RawW.call.value

\* a Big-endian write that starts past index 0 panics where overflow is checked
BigWritePastZeroPanics ==
    (BigDone /\ RawW.pre.index > 0 /\ overflow_checks) => ~RawW.ok

(***************************************************************************)
(* Back-to-back writes: set_index(s), three write_bits_us calls of widths  *)
(* n1, n2, n3, set_index(s), then three read_bits calls of the same widths.*)
(***************************************************************************)
SeqWidths == {1, 5, 8, 13, MaxBits}

SeqPatterns == {{i \in U32 : i % 2 = 1}, Lit(43981) \cup {31}}

SeqScript(s, a, n1, n2, n3) ==
    <<CallSetIndex(s),
      CallWriteBitsUs(a \cap (0 .. (n1 - 1)), n1),
      CallWriteBitsUs((U32 \ a) \cap (0 .. (n2 - 1)), n2),
      CallWriteBitsUs(a \cap (0 .. (n3 - 1)), n3),
      CallSetIndex(s),
      CallReadBits(n1), CallReadBits(n2), CallReadBits(n3)>>

SeqPrograms ==
    {SeqScript(s, a, n1, n2, n3) :
        s \in {0, 3}, a \in SeqPatterns,
        n1 \in SeqWidths, n2 \in SeqWidths, n3 \in SeqWidths}

InitSeq == \E l \in {CopyBufLen, WideBufLen}, p \in SeqPrograms : InitWith(l, p, FALSE)

NextSeq == SetIndex \/ WriteBitsUs \/ ReadBits

SpecSeq == InitSeq /\ [][NextSeq]_vars

\* the script has run to its end
SeqDone == ~free /\ prog = <<>> /\ Len(out) = 8

\* C21: on a Little-endian cursor, values written back-to-back from bit s
\* with write_bits_us in widths n1..nk (each in 1..32, the total within
\* capacity) advance the index by ni each, and after set_index(s) read_bits
\* with the same widths returns the same values in the same order and leaves
\* the index at s + n1 + ... + nk.
C21_BackToBack ==
    LET s == out[1].call.bits
        total == out[2].call.bits + out[3].call.bits + out[4].call.bits
    IN  (SeqDone /\ out[1].pre.endianness = "Little"
                 /\ s + total <= 8 * byte_length)
            => /\ \A j \in 1 .. 8 : out[j].ok
               /\ \A j \in {2, 3, 4, 6, 7, 8} :
                      out[j].post.index = out[j].pre.index + out[j].call.bits
               /\ out[2].pre.index = s /\ out[6].pre.index = s
               /\ \A j \in {2, 3, 4} : out[j + 4].ret = out[j].call.value
               /\ index = s + total

\* 13, 32 and 5 bits written from bit 3 have been read back
C21_Witness ==
    /\ SeqDone
    /\ out[1].call.bits = 3
    /\ out[2].call.bits = 13 /\ out[3].call.bits = 32 /\ out[4].call.bits = 5
    /\ out[2].call.value # {} /\ out[3].call.value # {}
    /\ out[7].ok /\ out[7].ret = out[3].call.value
    /\ index = 53

(***************************************************************************)
(* The bits a raw call touches (Spec).                                     *)
(***************************************************************************)
\* C22: on a Little-endian cursor at index s, write_bits_us(v, n) with
\* n <= bits_left() sets stream bit s+k (bit (s+k) mod 8 of byte (s+k) div 8)
\* to bit k of v for every k < n, ignores the bits of v from n up and leaves
\* every other bit of the buffer as it was; read_bits changes no bit.
C22_Frame ==
    \A c \in Made :
        LET n == c.call.bits
            s == c.pre.index
        IN  /\ (/\ c.call.op = "write_bits_us" /\ c.pre.endianness = "Little"
                /\ n <= MaxBits /\ n <= bits_left(c.pre))
                  => /\ c.ok
                     /\ \A k \in 0 .. (n - 1) :
                            BitAt(c.post, s + k) <=> k \in c.call.value
                     /\ \A p \in AllBits(c.pre) \ (s .. (s + n - 1)) :
                            BitAt(c.post, p) <=> BitAt(c.pre, p)
            /\ c.call.op = "read_bits" => c.post.internal = c.pre.internal

\* 10 bits of 0xABCD have been written from bit 6 of a buffer of ones: bits
\* 6 and 7 of the first byte and the whole second byte took the value's bits,
\* bits 0..5 of the first byte kept theirs
C22_Witness ==
    /\ free /\ out # <<>>
    /\ out[1].call = CallWriteBitsUs(Lit(43981), 10)
    /\ out[1].ok
    /\ out[1].pre.endianness = "Little"
    /\ out[1].pre.index = 6
    /\ out[1].pre.internal = <<U8, U8>>
    /\ internal = <<{0, 1, 2, 3, 4, 5, 6}, {0, 1, 4, 5, 6, 7}>>

(***************************************************************************)
(* 64-bit calls on a buffer too short for them: a buffer that is filled or *)
(* not, a cursor moved to bit s, then write_uint64(v) or read_uint64().    *)
(***************************************************************************)
PartialScript(fill, e, s, op) ==
    (IF fill THEN <<CallWriteBitsUs(U32, 16)>> ELSE <<>>)
    \o (IF e = "Big" THEN <<CallSetEndianness(e)>> ELSE <<>>)
    \o <<CallSetIndex(s), op>>

PartialPrograms ==
    {PartialScript(fill, e, s, op) :
        fill \in BOOLEAN, e \in Endians, s \in {0, 3, 16},
        op \in {CallReadUint64} \cup {CallWriteUint64(v) : v \in Samples64}}

InitPartial == \E l \in {3, MaxLen}, p \in PartialPrograms : InitWith(l, p, FALSE)

NextPartial ==
    \/ SetEndianness \/ SetIndex \/ WriteBitsUs
    \/ WriteUint64 \/ ReadUint64

SpecPartial == InitPartial /\ [][NextPartial]_vars

\* what the claim on failing 64-bit calls says of one recorded call c
NotRolledBack(c) ==
    LET left == bits_left(c.pre)
        s == c.pre.index
    IN  /\ (32 <= left /\ left < 64)
           => /\ ~c.ok
              /\ c.post.index = s + 32
              /\ c.call.op = "write_uint64"
                    => read_bits([c.post EXCEPT !.index = s], 32).ret
                           = AsU32(And(c.call.value, U32))
              /\ c.call.op = "read_uint64" => c.post.internal = c.pre.internal
        /\ left < 32 => ~c.ok /\ c.post = c.pre

Calls64 == {c \in Made : c.call.op \in {"write_uint64", "read_uint64"}}

\* C23: write_uint64 and read_uint64 called with 32 <= bits_left() < 64 fail
\* after the low-order 32-bit chunk has been written (read), the index
\* advanced by exactly 32 bits; with bits_left() < 32 they fail with the
\* buffer and the index unchanged.
C23_NotRolledBack == \A c \in Calls64 : NotRolledBack(c)

\* the same statement on Little-endian cursors only
NotRolledBackLittle ==
    \A c \in Calls64 : c.pre.endianness = "Little" => NotRolledBack(c)

\* the same statement for read_uint64 on either endianness
NotRolledBackRead ==
    \A c \in Calls64 : c.call.op = "read_uint64" => NotRolledBack(c)

(***************************************************************************)
(* Small integers: set_index(s), a write_(u)intN, set_index(s), then the   *)
(* matching read.  A signed value is the bits of its two's complement form *)
(* in its own width (i8 for the 4-bit calls).                              *)
(***************************************************************************)
\* the two's complement bits, over w bits, of the number x
Twos(w, x) == (IF x >= 0 THEN Lit(x) ELSE U32 \ Lit(0 - (x + 1))) \cap (0 .. (w - 1))

Samples16 == {{}, 0 .. 15, {15}, 0 .. 14, {0}, Lit(43981), {8}, {0, 1, 2, 3, 4, 5, 6, 7}}
Samples32 == {{}, U32, {31}, 0 .. 30, {0}, Lit(43981), {16}, Lit(43981) \cup {31}}

IntPairs ==
    {<<CallWriteInt4(Twos(8, v)), CallReadInt4>> : v \in (0 - 8) .. 7}
    \cup {<<CallWriteUint4(Lit(u)), CallReadUint4>> : u \in 0 .. 15}
    \cup {<<CallWriteInt8(Twos(8, v)), CallReadInt8>> : v \in (0 - 128) .. 127}
    \cup {<<CallWriteUint8(Lit(u)), CallReadUint8>> : u \in 0 .. 255}
    \cup {<<CallWriteInt16(v), CallReadInt16>> : v \in Samples16}
    \cup {<<CallWriteUint16(v), CallReadUint16>> : v \in Samples16}
    \cup {<<CallWriteInt32(v), CallReadInt32>> : v \in Samples32}
    \cup {<<CallWriteUint32(v), CallReadUint32>> : v \in Samples32}

IntScript(e, s, pair) ==
    (IF e = "Big" THEN <<CallSetEndianness(e)>> ELSE <<>>)
    \o <<CallSetIndex(s), pair[1], CallSetIndex(s), pair[2]>>

IntPrograms == {IntScript(e, s, pair) : e \in Endians, s \in {0, 3}, pair \in IntPairs}

InitInt == \E p \in IntPrograms : InitWith(MaxLen, p, FALSE)

NextInt ==
    \/ SetEndianness \/ SetIndex
    \/ WriteInt4 \/ ReadInt4 \/ WriteUint4 \/ ReadUint4
    \/ WriteInt8 \/ ReadInt8 \/ WriteUint8 \/ ReadUint8
    \/ WriteInt16 \/ ReadInt16 \/ WriteUint16 \/ ReadUint16
    \/ WriteInt32 \/ ReadInt32 \/ WriteUint32 \/ ReadUint32

SpecInt == InitInt /\ [][NextInt]_vars

\* the script has run to its end: the write, the set_index and the read
IntDone == ~free /\ prog = <<>> /\ Len(out) >= 4
IntW == out[Len(out) - 2]
IntS == out[Len(out) - 1]
IntR == out[Len(out)]

\* the write and the read succeeded, the read returned the value written and
\* each advanced the index by n bits
IntRoundTrip(n) ==
    /\ IntW.ok /\ IntS.ok /\ IntR.ok
    /\ IntR.ret = IntW.call.value
    /\ IntW.post.index = IntW.pre.index + n
    /\ IntR.post.index = IntR.pre.index + n

\* C24: for every v in -8..7, write_int4(v) then read_int4 from the same
\* index returns v, and for every u in 0..15, write_uint4(u) then read_uint4
\* returns u; each call advances the index by exactly 4 bits.
C24_FourBit ==
    (IntDone /\ IntW.call.op \in {"write_int4", "write_uint4"}) => IntRoundTrip(4)

\* the same statement for write_uint4 / read_uint4 and for the v <= 0 of
\* write_int4 / read_int4, on a Little-endian cursor
FourBitLittle ==
    (/\ IntDone /\ IntW.pre.endianness = "Little"
     /\ \/ IntW.call.op = "write_uint4"
        \/ IntW.call.op = "write_int4" /\ (IntW.call.value = {} \/ 7 \in IntW.call.value))
        => IntRoundTrip(4)

\* on a Little-endian cursor read_int4 returns v - 16 for every v in 1..7
FourBitPositive ==
    (/\ IntDone /\ IntW.pre.endianness = "Little"
     /\ IntW.call.op = "write_int4" /\ IntW.call.value # {} /\ 7 \notin IntW.call.value)
        => IntR.ok /\ IntR.ret = IntW.call.value \cup (4 .. 7)

\* the width of the integer a write_(u)intN call writes
IntWidth(op) ==
    IF op \in {"write_int8", "write_uint8"} THEN 8
    ELSE IF op \in {"write_int16", "write_uint16"} THEN 16
    ELSE 32

\* C25: on a Little-endian cursor write_int8 / read_int8, write_int16 /
\* read_int16 and write_int32 / read_int32 return every value of the signed
\* range exactly, negative or positive, and write_uint8/16/32 followed by
\* read_uint8/16/32 return every unsigned value unchanged.
C25_ByteIntegers ==
    (/\ IntDone /\ IntW.pre.endianness = "Little"
     /\ IntW.call.op \in {"write_int8", "write_uint8", "write_int16",
                          "write_uint16", "write_int32", "write_uint32"})
        => IntRoundTrip(IntWidth(IntW.call.op))

\* the positive i16 0x00FF, written at bit 3, has been read back
C25_Witness ==
    /\ IntDone
    /\ IntW.pre.endianness = "Little" /\ IntW.pre.index = 3
    /\ IntW.call = CallWriteInt16({0, 1, 2, 3, 4, 5, 6, 7})
    /\ IntR.call = CallReadInt16
    /\ IntR.ok /\ IntR.ret = {0, 1, 2, 3, 4, 5, 6, 7}
    /\ index = 19

(***************************************************************************)
(* Negative values on signed codecs (SpecFloat).                           *)
(***************************************************************************)
\* the serializer of the first call
PairCodec ==
    new_sign(out[1].call.config.bits, out[1].call.config.exponent_bits,
             out[1].call.config.signed)

\* the script encoded x > 0 and then -x on a signed codec that is neither
\* (32, 8) nor (64, 11), with min_value <= x <= max_value
SignedPairDone ==
    /\ SignPairDone
    /\ out[1].call.config.signed /\ PairCodec.ok
    /\ <<PairCodec.bits, PairCodec.exponent_bits>> \notin {<<32, 8>>, <<64, 11>>}
    /\ out[2].call.float = MulSign(TRUE, out[1].call.float)
    /\ ~Lt(out[1].call.float, PairCodec.min_value)
    /\ ~Lt(PairCodec.max_value, out[1].call.float)

\* C26: on a signed non-standard codec, for every finite x > 0 with
\* min_value <= x <= max_value, encode_ieee(-x) is encode_ieee(x) with the
\* sign bit added, and decode_ieee(encode_ieee(-x)) is
\* -decode_ieee(encode_ieee(x)).
C26_SignSymmetry ==
    SignedPairDone
        => /\ out[1].ok /\ out[2].ok
           /\ out[2].ret = Or(out[1].ret, PairCodec.sign_mask)
           /\ decode_ieee(PairCodec, out[2].ret)
                  = MulSign(TRUE, decode_ieee(PairCodec, out[1].ret))

\* the same statement for the x with 1 <= x < 2
SignSymmetryUnitBinade ==
    (SignedPairDone /\ Log2FloorAsI32(out[1].call.float) = 0)
        => /\ out[1].ok /\ out[2].ok
           /\ out[2].ret = Or(out[1].ret, PairCodec.sign_mask)
           /\ decode_ieee(PairCodec, out[2].ret)
                  = MulSign(TRUE, decode_ieee(PairCodec, out[1].ret))

(***************************************************************************)
(* Patterns decoded and encoded again: decode_ieee(p), then encode_ieee of *)
(* the float it returned, for every pattern of the 8-bit codecs.           *)
(***************************************************************************)
PatternConfigs ==
    {Config(8, eb, sg) : eb \in {2, 3, 4, 6}, sg \in BOOLEAN}

PatternPrograms ==
    {<<CallDecodePattern(cfg, Lit(p)), CallEncodeDecoded(cfg)>> :
        cfg \in PatternConfigs, p \in 0 .. 255}

InitPattern == \E p \in PatternPrograms : InitWith(0, p, FALSE)

NextPattern == DecodePattern \/ EncodeDecoded

SpecPattern == InitPattern /\ [][NextPattern]_vars

\* the script has run to its end on a pattern with the sign bit clear
PatternDone ==
    /\ ~free /\ prog = <<>> /\ Len(out) = 2
    /\ out[1].call.op = "decode_ieee_of"
    /\ And(out[1].call.value, PairCodec.sign_mask) = {}

\* C27: on a non-standard codec such as the signed 8-bit one with 3 exponent
\* bits, every pattern p with the sign bit clear that is not a NaN pattern
\* satisfies encode_ieee(decode_ieee(p)) = p: zero, the subnormals, the
\* normals and +Infinity re-encode to themselves.
C27_PatternRoundTrip ==
    (PatternDone /\ ~is_nan(out[1].float))
        => /\ out[1].ok /\ out[2].ok
           /\ out[2].ret = out[1].call.value

\* the NaN patterns are those with the exponent field full and a mantissa
NanPatterns ==
    PatternDone
        => (is_nan(out[1].float)
              <=> /\ PairCodec.exponent_mask \subseteq out[1].call.value
                  /\ And(out[1].call.value, PairCodec.mantissa_mask) # {})

\* 0x5F, a normal pattern whose last mantissa bit is set, has been decoded
\* by the signed 8-bit codec with 3 exponent bits and encoded again
C27_Witness ==
    /\ PatternDone
    /\ out[1].call.config = Config(8, 3, TRUE)
    /\ out[1].call.value = {0, 1, 2, 3, 4, 6}
    /\ out[1].float = Finite(FALSE, {2, 1, 0, 0 - 1, 0 - 2})
    /\ out[2].ok /\ out[2].ret = {0, 1, 2, 3, 4, 6}

(***************************************************************************)
(* The object pool: any add, delete and clear of objects whose types are   *)
(* Player or Loot and whose ids are 1 .. MaxIds.                           *)
(***************************************************************************)
PoolObjects == {[type |-> t, id |-> i] : t \in {"Player", "Loot"}, i \in 1 .. MaxIds}

StreamVars == <<internal, byte_length, endianness, index, sliced, overflow_checks,
                prog, free, steps, out>>

PoolAdd == \E o \in PoolObjects : pool' = pool_add(pool, o) /\ UNCHANGED StreamVars

PoolDelete == \E o \in PoolObjects : pool' = pool_delete(pool, o) /\ UNCHANGED StreamVars

PoolClear == pool' = pool_clear(pool) /\ UNCHANGED StreamVars

InitPool == InitWith(0, <<>>, FALSE)

NextPool == PoolAdd \/ PoolDelete \/ PoolClear

SpecPool == InitPool /\ [][NextPool]_vars

RECURSIVE SumOfSizes(_, _)
\* the number of objects over the category sets of cats
SumOfSizes(p, cats) ==
    IF cats = {} THEN 0
    ELSE LET cat == CHOOSE c \in cats : TRUE
         IN  Cardinality(p.by_category[cat]) + SumOfSizes(p, cats \ {cat})

\* C28: after any add, delete and clear, an object is in its category's set
\* exactly when the objects map holds that same object under its id, so
\* has(o) and category_has(o) agree and get_size() is the number of objects
\* over all category sets.
C28_PoolConsistent ==
    /\ \A o \in PoolObjects :
           /\ pool_category_has(pool, o)
                 <=> (o.id \in DOMAIN pool.objects /\ pool.objects[o.id] = o)
           /\ pool_has(pool, o) <=> pool_category_has(pool, o)
    /\ pool_get_size(pool) = SumOfSizes(pool, OBJECT_CAT_ELEMS)

(***************************************************************************)
(* Arrays: set_index(s), write_array of an array of some length with a     *)
(* prefix of bit_count bits, set_index(s), then read_array or              *)
(* read_and_create_array.                                                  *)
(***************************************************************************)
\* the longest array written
MaxArray == 9

ArrayScript(e, s, length, bit_count, rd) ==
    (IF e = "Big" THEN <<CallSetEndianness(e)>> ELSE <<>>)
    \o <<CallSetIndex(s), CallWriteArray(length, bit_count), CallSetIndex(s),
         IF rd = "read_array" THEN CallReadArray(bit_count)
         ELSE CallReadAndCreateArray(bit_count)>>

ArrayPrograms ==
    {ArrayScript(e, s, length, bit_count, rd) :
        e \in Endians, s \in {0, 3}, length \in 0 .. MaxArray, bit_count \in {1, 2, 3, 8},
        rd \in {"read_array", "read_and_create_array"}}

InitArray == \E p \in ArrayPrograms : InitWith(2, p, FALSE)

NextArray ==
    \/ SetEndianness \/ SetIndex
    \/ WriteArray \/ ReadArray \/ ReadAndCreateArray

SpecArray == InitArray /\ [][NextArray]_vars

\* the script has run to its end on a Little-endian cursor
ArrayDone ==
    /\ ~free /\ prog = <<>> /\ Len(out) = 4
    /\ out[2].call.op = "write_array"
    /\ out[2].pre.endianness = "Little"

\* the elements were written as often as the prefix says and read as often
ArrayCounted ==
    /\ out[2].ok /\ out[3].ok /\ out[4].ok
    /\ out[2].ret = read_bits(out[4].pre, out[2].call.bits).ret
    /\ out[4].ret = out[2].ret

\* C29: write_array writes a prefix of bit_count bits and then exactly that
\* many elements: for every array length the number of element_serializer
\* calls is the value stored in the prefix, so read_array and
\* read_and_create_array, which call the deserializer once per unit of the
\* prefix, consume exactly the elements written.
C29_ArrayPrefix == ArrayDone => ArrayCounted

\* the same statement for the lengths below 2^bit_count
ArrayPrefixFits ==
    (ArrayDone /\ out[2].call.num < Pow2(out[2].call.bits)) => ArrayCounted

(***************************************************************************)
(* Positions: set_index(s), write_position(v), set_index(s),               *)
(* read_position(), and the same with write_vector and read_vector over    *)
(* the ranges 0 .. max_position on both axes.                              *)
(***************************************************************************)
Coordinates == {0, 1, 16, 816, max_position - 1, max_position}
Positions == {[x |-> x, y |-> y] : x \in Coordinates, y \in Coordinates}

\* min_x, max_x, min_y, max_y of a vector over the whole map
MapRange == <<0, max_position, 0, max_position>>

PositionScript(s, v, how) ==
    IF how = "position"
    THEN <<CallSetIndex(s), CallWritePosition(v), CallSetIndex(s), CallReadPosition>>
    ELSE <<CallSetIndex(s), CallWriteVector(v, MapRange, 16), CallSetIndex(s),
           CallReadVector(MapRange, 16)>>

PositionPrograms ==
    {PositionScript(s, v, how) :
        s \in {0, 3}, v \in Positions, how \in {"position", "vector"}}

InitPosition == \E p \in PositionPrograms : InitWith(CopyBufLen, p, FALSE)

NextPosition ==
    \/ SetIndex
    \/ WritePosition \/ ReadPosition
    \/ WriteVector \/ ReadVector

SpecPosition == InitPosition /\ [][NextPosition]_vars

\* the script with the call wr has run to its end
PositionDone(wr) ==
    /\ ~free /\ prog = <<>> /\ Len(out) = 4
    /\ out[2].call.op = wr

\* |a - b|
Distance(a, b) == IF a < b THEN b - a ELSE a - b

\* the fraction r, over 65535 = 2^16 - 1, is within max_position / 65535 of
\* the whole number c
WithinStep(r, c) ==
    /\ r.den = Pow2(16) - 1
    /\ Distance(r.num, c * r.den) <= max_position

\* the vector written by out[2] is read by out[4] within one step on both
\* axes, and both calls advance the index by 32 bits
PositionKept ==
    /\ out[2].ok /\ out[4].ok
    /\ WithinStep(out[4].vec.x, out[2].call.vec.x)
    /\ WithinStep(out[4].vec.y, out[2].call.vec.y)
    /\ out[2].post.index = out[2].pre.index + 32
    /\ out[4].post.index = out[4].pre.index + 32

\* C30: write_position(v) followed by read_position() from the same index
\* returns x and y within one 16-bit quantization step, max_position / 65535,
\* of the coordinates written, for every v with 0 <= x, y <= max_position,
\* and both calls advance the index by 32 bits.
C30_PositionRoundTrip == PositionDone("write_position") => PositionKept

\* write_position and read_position always advance the index by 32 bits, and
\* read_position returns (0, max_position) whatever was written
PositionConstant ==
    PositionDone("write_position") =>
        /\ out[2].ok /\ out[4].ok
        /\ out[2].post.index = out[2].pre.index + 32
        /\ out[4].post.index = out[4].pre.index + 32
        /\ out[4].vec.x.num = 0
        /\ out[4].vec.y.num = max_position * out[4].vec.y.den

\* write_vector and read_vector over 0 .. max_position on both axes do keep
\* the vector within one step
VectorRoundTrip == PositionDone("write_vector") => PositionKept

=============================================================================
